---------------------------- MODULE Spec2Model ----------------------------
(***************************************************************************)
(* A model of container_inspector: the rootfs squasher (rootfs.py), the    *)
(* tar extractor (utils.py) and the Docker / OCI image loaders (image.py). *)
(*                                                                         *)
(* File names are sequences of tokens so that the string operations of the *)
(* code (==, startswith, rpartition, split) are computed, not assumed:     *)
(*   <<".wh.", "x">>            is the name  .wh.x                          *)
(*   <<".wh.", ".wh.", "opq">>  is the name  .wh..wh.opq                    *)
(*   <<".wh.", ".wh.", ".opq">> is the name  .wh..wh..opq                   *)
(* A path is a sequence of names, relative to the root it lives under.     *)
(***************************************************************************)
EXTENDS Naturals, Sequences, FiniteSets, TLC

VARIABLES
    \* ---- rebuild_rootfs (rootfs.py) ----
    img_layers,     \* img.layers: the layer archives, bottom to top
    target,         \* the tree under target_dir (a set of paths)
    tmp_tree,       \* the tree under the temp dir extracted_loc
    tmp_live,       \* the set of layer numbers whose temp dir exists on disk
    layer_exloc,    \* Layer.extracted_location per layer: 0 unset, k = temp dir of layer k
    layer_num,      \* enumerate(img.layers) position, 1-based
    whiteouts,      \* the list built at step 2 of the loop
    deletions,      \* the returned list
    sq_pc,          \* position inside rebuild_rootfs
    \* ---- extract_tar (utils.py) ----
    tar_entries,    \* the members of the tarball, in archive order
    skip_symlinks,  \* the skip_symlinks argument
    ex_idx,         \* the member the loop is at, 1-based
    ex_fs,          \* objects under target_dir: path -> kind
    ex_outside,     \* objects created or written outside target_dir
    events,         \* the events list
    ex_pc,          \* position inside extract_tar
    \* ---- assign_history_to_layers (image.py) ----
    h_history,      \* the history argument
    h_layers,       \* the layers argument (Layer objects, mutated in place)
    h_pc,           \* "call" before, "returned" after
    \* ---- Image.get_images_from_dir, find_format (image.py) ----
    fm_isdir,       \* os.path.isdir(extracted_location)
    fm_listing,     \* the entries at the top level of extracted_location
    fm_format,      \* what find_format returned
    fm_pc,          \* position inside get_images_from_dir
    \* ---- the Docker and OCI loaders (image.py) ----
    ld_format,      \* the loader that runs: "docker" or "oci"
    ld_verify,      \* the verify argument
    ld_disk,        \* what the loader has read from the directory so far
    ld_image,       \* the Image returned, NoImage before and on failure
    ld_pc,          \* position inside the loader
    \* ---- Image.get_installed_packages (image.py) ----
    pk_outputs,     \* what packages_getter yields for each layer, bottom to top
    pk_layer,       \* the layer the outer loop is at, 1-based
    pk_pos,         \* the position in the current layer's getter output
    pk_calls,       \* the layers packages_getter was called on, in call order
    pk_seen,        \* seen_packages
    pk_yielded,     \* the tuples yielded so far
    pk_pc,          \* position inside get_installed_packages
    \* ---- LayerOld.sort (conan/image_v10.py) ----
    so_layers,      \* the layers argument
    so_sortedl,     \* the deque sortedl
    so_to_sort,     \* the deque to_sort
    so_cycles,      \* cycles
    so_result,      \* the returned list
    so_pc,          \* "loop", "returned" or "raised"
    \* ---- Distro.from_rootfs ----
    di_exists,      \* the location exists
    di_os_release,  \* the os-release file of the rootfs, <<>> when missing
    di_windows_root, \* find_root finds a Windows root in the rootfs
    di_base,        \* the base_distro argument
    di_found,       \* the distro a finder found
    di_result,      \* the returned distro
    di_pc,          \* "idle", "call", "returned" or "raised"
    \* ---- find_root ----
    fr_depths,      \* the depth of each directory, in the order of the walk
    fr_listings,    \* dirs + files of each directory of the walk
    fr_max_depth,   \* max_depth, 0 for no limit
    fr_min_paths,   \* min_paths
    fr_idx,         \* the position of the walk
    fr_result,      \* the returned path, NoPath for None
    fr_pc,          \* "idle", "walk" or "returned"
    \* ---- Image.extract_layers, squash, cleanup ----
    im_count,       \* the number of layers of the image
    im_meta,        \* image_id, tags and history of the image
    im_exloc,       \* image.extracted_location
    im_layer_exloc, \* extracted_location of each layer
    im_disk,        \* the directories that exist
    im_last,        \* the last call and its outcome
    im_pc,          \* "idle" or "ready"
    \* ---- Image.get_images_from_tarball ----
    tb_archive,     \* the image tarball
    tb_verify,      \* the verify argument
    tb_extracted,   \* the listing of extracted_location in a set, {} before
    tb_call,        \* "tarball" or "dir": the entry point used, None before
    tb_result,      \* the returned images
    tb_pc,          \* "idle", "start", "extracted", "returned" or "raised"
    \* ---- map_image_to_dockerfile ----
    al_layers,      \* image.layers, bottom first
    al_instructions, \* dockerfile['instructions']
    al_base_layers, \* base_image_layers
    al_error,       \* the exception raised, None when there is none
    al_pc,          \* "idle", "call", "loop", "returned" or "raised"
    \* ---- Layer.get_resources ----
    rs_tree,        \* the tree below the extracted_location of the layer
    rs_extracted,   \* whether layer.extracted_location is set
    rs_with_dir,    \* the with_dir argument
    rs_todo,        \* the directories that the walk has yet to list
    rs_resources,   \* the Resources yielded so far
    rs_pc           \* "idle", "call", "walk", "done" or "raised"

sqVars == <<img_layers, target, tmp_tree, tmp_live, layer_exloc, layer_num,
            whiteouts, deletions, sq_pc>>

exVars == <<tar_entries, skip_symlinks, ex_idx, ex_fs, ex_outside, events, ex_pc>>

hiVars == <<h_history, h_layers, h_pc>>

fmVars == <<fm_isdir, fm_listing, fm_format, fm_pc>>

ldVars == <<ld_format, ld_verify, ld_disk, ld_image, ld_pc>>

pkVars == <<pk_outputs, pk_layer, pk_pos, pk_calls, pk_seen, pk_yielded, pk_pc>>

soVars == <<so_layers, so_sortedl, so_to_sort, so_cycles, so_result, so_pc>>

diVars == <<di_exists, di_os_release, di_windows_root, di_base, di_found, di_result, di_pc>>

frVars == <<fr_depths, fr_listings, fr_max_depth, fr_min_paths, fr_idx, fr_result, fr_pc>>

imVars == <<im_count, im_meta, im_exloc, im_layer_exloc, im_disk, im_last, im_pc>>

tbVars == <<tb_archive, tb_verify, tb_extracted, tb_call, tb_result, tb_pc>>

alVars == <<al_layers, al_instructions, al_base_layers, al_error, al_pc>>

rsVars == <<rs_tree, rs_extracted, rs_with_dir, rs_todo, rs_resources, rs_pc>>

vars == <<sqVars, exVars, hiVars, fmVars, ldVars, pkVars, soVars, diVars,
          frVars, imVars, tbVars, alVars, rsVars>>

\* What each operation leaves alone: the state of the other operations.
sqOthers == <<exVars, hiVars, fmVars, ldVars, pkVars, soVars, diVars, frVars,
              imVars, tbVars, alVars, rsVars>>
exOthers == <<sqVars, hiVars, fmVars, ldVars, pkVars, soVars, diVars, frVars,
              imVars, tbVars, alVars, rsVars>>
hiOthers == <<sqVars, exVars, fmVars, ldVars, pkVars, soVars, diVars, frVars,
              imVars, tbVars, alVars, rsVars>>
fmOthers == <<sqVars, exVars, hiVars, ldVars, pkVars, soVars, diVars, frVars,
              imVars, tbVars, alVars, rsVars>>
ldOthers == <<sqVars, exVars, hiVars, fmVars, pkVars, soVars, diVars, frVars,
              imVars, tbVars, alVars, rsVars>>
pkOthers == <<sqVars, exVars, hiVars, fmVars, ldVars, soVars, diVars, frVars,
              imVars, tbVars, alVars, rsVars>>
soOthers == <<sqVars, exVars, hiVars, fmVars, ldVars, pkVars, diVars, frVars,
              imVars, tbVars, alVars, rsVars>>
diOthers == <<sqVars, exVars, hiVars, fmVars, ldVars, pkVars, soVars, frVars,
              imVars, tbVars, alVars, rsVars>>
frOthers == <<sqVars, exVars, hiVars, fmVars, ldVars, pkVars, soVars, diVars,
              imVars, tbVars, alVars, rsVars>>
imOthers == <<sqVars, exVars, hiVars, fmVars, ldVars, pkVars, soVars, diVars,
              frVars, tbVars, alVars, rsVars>>
tbOthers == <<sqVars, exVars, hiVars, fmVars, ldVars, pkVars, soVars, diVars,
              frVars, imVars, alVars, rsVars>>
alOthers == <<sqVars, exVars, hiVars, fmVars, ldVars, pkVars, soVars, diVars,
              frVars, imVars, tbVars, rsVars>>
rsOthers == <<sqVars, exVars, hiVars, fmVars, ldVars, pkVars, soVars, diVars,
              frVars, imVars, tbVars, alVars>>

--------------------------------------------------------------------------
(* Bounds of the model *)

MaxLayers == 2

MaxEntries == 2

MaxHistory == 2

MaxPurls == 2

MaxChain == 4

\* The largest number of directories of a tree that find_root walks.
MaxDirs == 4

\* The largest number of images of an image tarball.
MaxImages == 2

\* The largest number of instructions of a Dockerfile after its FROM.
MaxInstructions == 2

--------------------------------------------------------------------------
(* Names and paths *)

WH == ".wh."

WHITEOUT_EXPLICIT_PREFIX == <<WH>>

WHITEOUT_OPAQUE_PREFIX == <<WH, WH, "opq">>

\* The opaque marker name of the OCI layer specification: .wh..wh..opq
OciOpaqueName == <<WH, WH, ".opq">>

NameA == <<"a">>
NameX == <<"x">>
NameY == <<"y">>
NameXWhY == <<"x", WH, "y">>

\* Directories of the path universe; every other path is a regular file.
DirPaths == {<<NameA>>}

RegularFiles == {<<NameA, NameX>>, <<NameA, NameY>>, <<NameA, NameXWhY>>}

MarkerFiles ==
    { <<NameA, <<WH, "x">> >>,
      <<NameA, <<WH, "x", WH, "y">> >>,
      <<NameA, WHITEOUT_OPAQUE_PREFIX>>,
      <<NameA, OciOpaqueName>>,
      << <<WH, "a">> >> }

\* A layer archive: the regular-file members of its tar. Each archive holds any
\* set of regular files and at most one whiteout marker.
LayerArchives ==
    { reg \cup mk : reg \in SUBSET RegularFiles,
                    mk \in {{}} \cup {{m} : m \in MarkerFiles} }

SeqsUpTo(S, n) == UNION { [1..k -> S] : k \in 0..n }

IsPrefix(p, q) == Len(p) <= Len(q) /\ SubSeq(q, 1, Len(p)) = p

StartsWith(name, prefix) ==
    Len(name) >= Len(prefix) /\ SubSeq(name, 1, Len(prefix)) = prefix

\* str.rpartition(sep)[2] for a one-token separator: what follows its last
\* occurrence (the whole string when it does not occur).
RPartitionTail(name, sepTok) ==
    LET hits == { i \in 1..Len(name) : name[i] = sepTok }
    IN  IF hits = {} THEN name
        ELSE LET last == CHOOSE i \in hits : \A j \in hits : j <= i
             IN  SubSeq(name, last + 1, Len(name))

\* os.path.join(parent_dir, name) followed by strip('/'): an empty name adds
\* only a trailing separator.
PathJoin(parent, name) == IF name = <<>> THEN parent ELSE Append(parent, name)

Basename(path) == path[Len(path)]

Dirname(path) == SubSeq(path, 1, Len(path) - 1)

--------------------------------------------------------------------------
(* rootfs.py *)

NoPath == <<"None">>

is_whiteout_marker(path) ==
    path # <<>> /\ StartsWith(Basename(path), WHITEOUT_EXPLICIT_PREFIX)

get_whiteable_path(path) ==
    LET file_name == Basename(path)
        parent_dir == Dirname(path)
    IN  IF file_name = WHITEOUT_OPAQUE_PREFIX
        THEN parent_dir
        ELSE IF StartsWith(file_name, WHITEOUT_EXPLICIT_PREFIX)
             THEN PathJoin(parent_dir, RPartitionTail(file_name, WH))
             ELSE NoPath

\* os.walk lists the files of every directory; each marker found is paired
\* with its whiteable path, relative to root_location.
find_whiteouts(tree) ==
    { <<f, get_whiteable_path(f)>> :
        f \in { p \in tree : p \notin DirPaths /\ get_whiteable_path(p) # NoPath } }

\* commoncode.fileutils.delete: remove a file, or a directory with all below
\* it; a missing path is not an error.
Delete(tree, path) == { q \in tree : ~IsPrefix(path, q) }

\* commoncode.fileutils.copytree(src, dst): merge src over dst.
CopyTree(src, dst) == dst \cup src

\* Layer.extract: utils.extract_tar creates every member and its parents.
ExtractedTree(archive) ==
    archive \cup { Dirname(p) : p \in { q \in archive : Len(q) > 1 } }

\* A fixed enumeration of a finite set (the order os.walk happens to use).
SetToSeq(S) ==
    CHOOSE s \in [1..Cardinality(S) -> S] : \A i, j \in 1..Cardinality(S) : i # j => s[i] # s[j]

SquashStart ==
    /\ img_layers \in SeqsUpTo(LayerArchives, MaxLayers)
    /\ target = {}
    /\ tmp_tree = {}
    /\ tmp_live = {}
    /\ layer_exloc = [i \in 1..Len(img_layers) |-> 0]
    /\ layer_num = 1
    /\ whiteouts = <<>>
    /\ deletions = <<>>
    /\ sq_pc = "extract"

\* rebuild_rootfs steps 1 and 2: mkdtemp, layer.extract, find_whiteouts
ExtractLayer ==
    /\ sq_pc = "extract"
    /\ layer_num <= Len(img_layers)
    /\ tmp_live' = tmp_live \cup {layer_num}
    /\ layer_exloc' = [layer_exloc EXCEPT ![layer_num] = layer_num]
    /\ tmp_tree' = ExtractedTree(img_layers[layer_num])
    /\ whiteouts' = SetToSeq(find_whiteouts(tmp_tree'))
    /\ sq_pc' = "whiteouts"
    /\ UNCHANGED <<img_layers, target, layer_num, deletions>>
    /\ UNCHANGED sqOthers

\* rebuild_rootfs step 1 for an archive that tarfile cannot read: mkdtemp,
\* then layer.extract sets extracted_location and extract_tar raises, which
\* ends rebuild_rootfs.
ExtractLayerFails ==
    /\ sq_pc = "extract"
    /\ layer_num <= Len(img_layers)
    /\ tmp_live' = tmp_live \cup {layer_num}
    /\ layer_exloc' = [layer_exloc EXCEPT ![layer_num] = layer_num]
    /\ sq_pc' = "raised"
    /\ UNCHANGED <<img_layers, target, tmp_tree, layer_num, whiteouts, deletions>>
    /\ UNCHANGED sqOthers

RECURSIVE DeleteAll(_, _)
DeleteAll(tree, paths) ==
    IF paths = <<>> THEN tree
    ELSE DeleteAll(Delete(tree, Head(paths)), Tail(paths))

\* A variant that applies the whiteouts to the layer's own tree as well.
ApplyWhiteoutsToOwnLayer ==
    /\ sq_pc = "whiteouts"
    /\ target' = DeleteAll(target, [i \in 1..Len(whiteouts) |-> whiteouts[i][2]])
    /\ tmp_tree' = DeleteAll(DeleteAll(tmp_tree,
                        [i \in 1..Len(whiteouts) |-> whiteouts[i][1]]),
                        [i \in 1..Len(whiteouts) |-> whiteouts[i][2]])
    /\ deletions' = deletions \o [i \in 1..Len(whiteouts) |-> whiteouts[i][2]]
    /\ sq_pc' = "copy"
    /\ UNCHANGED <<img_layers, tmp_live, layer_exloc, layer_num, whiteouts>>
    /\ UNCHANGED sqOthers

\* A variant that records a deletion only for a path that exists in the
\* target.
ApplyWhiteoutsOfExistingPaths ==
    /\ sq_pc = "whiteouts"
    /\ target' = DeleteAll(target, [i \in 1..Len(whiteouts) |-> whiteouts[i][2]])
    /\ tmp_tree' = DeleteAll(tmp_tree, [i \in 1..Len(whiteouts) |-> whiteouts[i][1]])
    /\ deletions' = deletions \o
          SelectSeq([i \in 1..Len(whiteouts) |-> whiteouts[i][2]],
                    LAMBDA p : \E q \in target : IsPrefix(p, q))
    /\ sq_pc' = "copy"
    /\ UNCHANGED <<img_layers, tmp_live, layer_exloc, layer_num, whiteouts>>
    /\ UNCHANGED sqOthers

\* rebuild_rootfs step 3: the loop over the whiteouts
ApplyWhiteouts ==
    /\ sq_pc = "whiteouts"
    /\ target' = DeleteAll(target, [i \in 1..Len(whiteouts) |-> whiteouts[i][2]])
    /\ tmp_tree' = DeleteAll(tmp_tree, [i \in 1..Len(whiteouts) |-> whiteouts[i][1]])
    /\ deletions' = deletions \o [i \in 1..Len(whiteouts) |-> whiteouts[i][2]]
    /\ sq_pc' = "copy"
    /\ UNCHANGED <<img_layers, tmp_live, layer_exloc, layer_num, whiteouts>>
    /\ UNCHANGED sqOthers

\* rebuild_rootfs step 4: copytree(extracted_loc, target_dir)
CopyLayer ==
    /\ sq_pc = "copy"
    /\ target' = CopyTree(tmp_tree, target)
    /\ sq_pc' = "cleanup"
    /\ UNCHANGED <<img_layers, tmp_tree, tmp_live, layer_exloc, layer_num,
                   whiteouts, deletions>>
    /\ UNCHANGED sqOthers

\* rebuild_rootfs: delete(extracted_loc), then the next layer
DeleteTemp ==
    /\ sq_pc = "cleanup"
    /\ tmp_live' = tmp_live \ {layer_num}
    /\ tmp_tree' = {}
    /\ layer_num' = layer_num + 1
    /\ sq_pc' = "extract"
    /\ UNCHANGED <<img_layers, target, layer_exloc, whiteouts, deletions>>
    /\ UNCHANGED sqOthers

\* rebuild_rootfs: return deletions
SquashReturn ==
    /\ sq_pc = "extract"
    /\ layer_num > Len(img_layers)
    /\ sq_pc' = "done"
    /\ UNCHANGED <<img_layers, target, tmp_tree, tmp_live, layer_exloc,
                   layer_num, whiteouts, deletions>>
    /\ UNCHANGED sqOthers

--------------------------------------------------------------------------
(* utils.py: extract_tar *)

\* A member name is its split('/') list: "l/f" is <<"l", "f">>, "../f" is
\* <<"..", "f">> and the absolute "/f" is <<"", "f">>.
TarNames == { <<"f">>, <<"l">>, <<"l", "f">>, <<"..", "f">>, <<"", "f">> }

\* Member types: regular file, directory, symlink, hardlink, character device.
\* A link's linkname points inside the target ("in": a symlink to the target
\* directory itself, a hardlink to the member f) or outside of it ("out": a
\* symlink to an outside directory, a hardlink to an outside file).
TarEntries ==
    [type : {"file", "dir", "chr"}, name : TarNames, linkname : {""}]
        \cup [type : {"sym", "lnk"}, name : TarNames, linkname : {"in", "out"}]

INFO == "info"
WARNING == "warning"
ERROR == "error"

ExtractEvent(type, source) == [type |-> type, source |-> source]

is_relative_path(path) == \E i \in 1..Len(path) : path[i] = ".."

\* tarinfo.isdev() or ischr() or isblk() or isfifo() or sparse
IsSpecial(tarinfo) == tarinfo.type = "chr"

IsLink(tarinfo) == tarinfo.type \in {"sym", "lnk"}

\* name.startswith('/')
IsAbsolute(name) == Len(name) > 1 /\ name[1] = ""

\* name.lstrip('/')
RECURSIVE LStripSlash(_)
LStripSlash(name) ==
    IF Len(name) > 1 /\ name[1] = "" THEN LStripSlash(Tail(name)) ELSE name

Has(fs, path) == path \in DOMAIN fs

Put(fs, path, kind) == [q \in DOMAIN fs \cup {path} |-> IF q = path THEN kind ELSE fs[q]]

\* The directory a member's parent resolves to: "in" (under target_dir, at
\* path .at), "out" (an outside directory), or "bad" (not a directory).
\* A missing parent is created by tarfile (os.makedirs).
ResolveParent(fs, name) ==
    IF Len(name) = 1 THEN [where |-> "in", at |-> name, mk |-> <<>>]
    ELSE LET parent == <<name[1]>>
         IN  IF ~Has(fs, parent)
             THEN [where |-> "in", at |-> name, mk |-> parent]
             ELSE IF fs[parent] = "dir"
             THEN [where |-> "in", at |-> name, mk |-> <<>>]
             ELSE IF fs[parent] = "symin"
             THEN [where |-> "in", at |-> <<name[2]>>, mk |-> <<>>]
             ELSE IF fs[parent] = "symout"
             THEN [where |-> "out", at |-> <<"out", name[2]>>, mk |-> <<>>]
             ELSE [where |-> "bad", at |-> name, mk |-> <<>>]

\* TarFile.extract(member, path=target_dir) of the standard library, called
\* without an extraction filter: the result is the new tree under target_dir,
\* the objects touched outside of it, and whether the call raised.
TarballExtract(fs, outside, tarinfo) ==
    LET r == ResolveParent(fs, tarinfo.name)
        fs1 == IF r.mk = <<>> THEN fs ELSE Put(fs, r.mk, "dir")
        raised == [fs |-> fs, outside |-> outside, ok |-> FALSE]
    IN  IF r.where = "bad" THEN raised
        ELSE IF r.where = "out"
        THEN [fs |-> fs, outside |-> outside \cup {r.at}, ok |-> TRUE]
        ELSE IF tarinfo.type = "file"
        THEN IF ~Has(fs1, r.at) \/ fs1[r.at] \in {"file", "lnkin"}
             THEN [fs |-> Put(fs1, r.at, IF Has(fs1, r.at) THEN fs1[r.at] ELSE "file"),
                   outside |-> outside, ok |-> TRUE]
             ELSE IF fs1[r.at] = "lnkout"
             THEN [fs |-> fs1, outside |-> outside \cup {<<"outfile">>}, ok |-> TRUE]
             ELSE raised
        ELSE IF tarinfo.type = "dir"
        THEN IF Has(fs1, r.at) THEN [fs |-> fs1, outside |-> outside, ok |-> TRUE]
             ELSE [fs |-> Put(fs1, r.at, "dir"), outside |-> outside, ok |-> TRUE]
        ELSE IF tarinfo.type = "sym"
        THEN IF Has(fs1, r.at) THEN [fs |-> fs1, outside |-> outside, ok |-> FALSE]
             ELSE [fs |-> Put(fs1, r.at, IF tarinfo.linkname = "in" THEN "symin" ELSE "symout"),
                   outside |-> outside, ok |-> TRUE]
        ELSE \* a hardlink
             IF Has(fs1, r.at) THEN [fs |-> fs1, outside |-> outside, ok |-> FALSE]
             ELSE IF tarinfo.linkname = "out"
             THEN [fs |-> Put(fs1, r.at, "lnkout"), outside |-> outside, ok |-> TRUE]
             ELSE IF Has(fs1, <<"f">>) /\ fs1[<<"f">>] \in {"file", "lnkin"}
             THEN [fs |-> Put(fs1, r.at, "lnkin"), outside |-> outside, ok |-> TRUE]
             ELSE [fs |-> fs1, outside |-> outside, ok |-> FALSE]

ExtractStart ==
    /\ tar_entries \in SeqsUpTo(TarEntries, MaxEntries)
    /\ skip_symlinks \in BOOLEAN
    /\ ex_idx = 1
    /\ ex_fs = <<>>
    /\ ex_outside = {}
    /\ events = <<>>
    /\ ex_pc = "loop"

AtEntry == ex_pc = "loop" /\ ex_idx <= Len(tar_entries)

NextEntry == ex_idx' = ex_idx + 1 /\ UNCHANGED <<tar_entries, skip_symlinks, ex_pc>>

\* extract_tar: a device, FIFO or sparse member is skipped with an info event
SkipSpecial ==
    /\ AtEntry
    /\ IsSpecial(tar_entries[ex_idx])
    /\ events' = Append(events, ExtractEvent(INFO, tar_entries[ex_idx].name))
    /\ UNCHANGED <<ex_fs, ex_outside>>
    /\ NextEntry
    /\ UNCHANGED exOthers

\* A variant in which a member with a '..' segment ends the extraction.
SkipRelativeAndStop ==
    /\ AtEntry
    /\ ~IsSpecial(tar_entries[ex_idx])
    /\ is_relative_path(tar_entries[ex_idx].name)
    /\ events' = Append(events, ExtractEvent(WARNING, tar_entries[ex_idx].name))
    /\ ex_pc' = "done"
    /\ UNCHANGED <<tar_entries, skip_symlinks, ex_idx, ex_fs, ex_outside>>
    /\ UNCHANGED exOthers

\* extract_tar: a member with a '..' segment is skipped with a warning
SkipRelative ==
    /\ AtEntry
    /\ ~IsSpecial(tar_entries[ex_idx])
    /\ is_relative_path(tar_entries[ex_idx].name)
    /\ events' = Append(events, ExtractEvent(WARNING, tar_entries[ex_idx].name))
    /\ UNCHANGED <<ex_fs, ex_outside>>
    /\ NextEntry
    /\ UNCHANGED exOthers

\* extract_tar: with skip_symlinks a link is skipped; the message is built but
\* no event is appended
SkipLink ==
    /\ AtEntry
    /\ ~IsSpecial(tar_entries[ex_idx])
    /\ ~is_relative_path(tar_entries[ex_idx].name)
    /\ skip_symlinks /\ IsLink(tar_entries[ex_idx])
    /\ UNCHANGED <<ex_fs, ex_outside, events>>
    /\ NextEntry
    /\ UNCHANGED exOthers

\* extract_tar: an absolute name is made relative with a warning, then the
\* member is extracted; an exception becomes an error event
ExtractMember ==
    /\ AtEntry
    /\ ~IsSpecial(tar_entries[ex_idx])
    /\ ~is_relative_path(tar_entries[ex_idx].name)
    /\ ~(skip_symlinks /\ IsLink(tar_entries[ex_idx]))
    /\ LET tarinfo == tar_entries[ex_idx]
           ev1 == IF IsAbsolute(tarinfo.name)
                  THEN Append(events, ExtractEvent(WARNING, tarinfo.name))
                  ELSE events
           renamed == [tarinfo EXCEPT !.name = LStripSlash(tarinfo.name)]
           res == TarballExtract(ex_fs, ex_outside, renamed)
       IN  /\ ex_fs' = res.fs
           /\ ex_outside' = res.outside
           /\ events' = IF res.ok THEN ev1
                        ELSE Append(ev1, ExtractEvent(ERROR, renamed.name))
    /\ NextEntry
    /\ UNCHANGED exOthers

\* extract_tar: return events
ExtractReturn ==
    /\ ex_pc = "loop"
    /\ ex_idx > Len(tar_entries)
    /\ ex_pc' = "done"
    /\ UNCHANGED <<tar_entries, skip_symlinks, ex_idx, ex_fs, ex_outside, events>>
    /\ UNCHANGED exOthers

--------------------------------------------------------------------------
(* image.py: Layer and assign_history_to_layers *)

\* Python's None; the empty string is "".
None == "<None>"

Truthy(v) == v # None /\ v # ""

HistoryFields == {"author", "created", "created_by", "comment"}

\* A history entry of the image config. empty_layer is "true", "false" or
\* "absent" (the key is missing).
HistoryEntries ==
    [empty_layer : {"absent", "true", "false"},
     author : {None, "", "A"},
     created : {None, "T"},
     created_by : {None, "cmd"},
     comment : {None, "c"}]

\* Layer(archive_location=..., sha256=...) and Layer.__attrs_post_init__:
\* set_sha256 computes the digest of the archive only when no sha256 was
\* given, and layer_id is set to sha256. on_disk is the digest of the file at
\* archive_location.
set_sha256(archive_location, sha256, on_disk) ==
    IF archive_location # <<>> /\ sha256 = <<>> THEN on_disk ELSE sha256

NewLayer(archive_location, sha256, on_disk) ==
    [archive_location |-> archive_location,
     sha256 |-> set_sha256(archive_location, sha256, on_disk),
     layer_id |-> set_sha256(archive_location, sha256, on_disk),
     is_empty_layer |-> FALSE,
     author |-> None,
     created |-> None,
     created_by |-> None,
     comment |-> None]

\* not h.get('empty_layer', False)
IsNonEmptyHistory(h) == h.empty_layer # "true"

IsNonEmptyLayer(l) == ~l.is_empty_layer

\* A variant that sets no field.
SetNoFields(layer, hist) == layer

\* The loop body of assign_history_to_layers: setattr only for truthy values.
SetHistoryFields(layer, hist) ==
    [f \in DOMAIN layer |->
        IF f \in HistoryFields /\ Truthy(hist[f]) THEN hist[f] ELSE layer[f]]

\* The number of non-empty layers among the first i.
RECURSIVE Rank(_, _)
Rank(layers, i) ==
    IF i = 0 THEN 0
    ELSE Rank(layers, i - 1) + (IF IsNonEmptyLayer(layers[i]) THEN 1 ELSE 0)

\* A variant that pairs layers with all history entries, empty ones included.
assign_unfiltered_history(history, layers) ==
    IF Len(history) # Len(layers) THEN layers
    ELSE [i \in 1..Len(layers) |-> SetHistoryFields(layers[i], history[i])]

assign_history_to_layers(history, layers) ==
    IF history = <<>> THEN layers
    ELSE LET non_empty_history == SelectSeq(history, IsNonEmptyHistory)
             non_empty_layers == SelectSeq(layers, IsNonEmptyLayer)
         IN  IF Len(non_empty_history) # Len(non_empty_layers) THEN layers
             ELSE [i \in 1..Len(layers) |->
                      IF IsNonEmptyLayer(layers[i])
                      THEN SetHistoryFields(layers[i], non_empty_history[Rank(layers, i)])
                      ELSE layers[i]]

\* The layers a loader hands to assign_history_to_layers: freshly built.
FreshLayers(n) == [i \in 1..n |-> NewLayer(<<"layers", i>>, <<"h1">>, <<"h1">>)]

HistoryStart ==
    /\ h_history \in SeqsUpTo(HistoryEntries, MaxHistory)
    /\ h_layers \in { FreshLayers(n) : n \in 0..MaxLayers }
    /\ h_pc = "call"

AssignHistory ==
    /\ h_pc = "call"
    /\ h_layers' = assign_history_to_layers(h_history, h_layers)
    /\ h_pc' = "returned"
    /\ UNCHANGED h_history
    /\ UNCHANGED hiOthers

--------------------------------------------------------------------------
(* image.py: Image.find_format and the dispatch of get_images_from_dir *)

DirNames == {"manifest.json", "index.json", "oci-layout", "blobs", "repositories"}

\* A top-level listing: for each name present, whether it is a directory.
\* Only blobs is tried both as a directory and as a plain file.
Listings ==
    { l \in SUBSET ([name : DirNames, is_dir : BOOLEAN]) :
        /\ \A e \in l : e.is_dir => e.name = "blobs"
        /\ \A e1, e2 \in l : e1.name = e2.name => e1 = e2 }

\* os.listdir(extracted_location)
ListDir(listing) == { e.name : e \in listing }

\* A variant that tries the OCI clues first.
OciCluesFirst ==
    << [image_format |-> "oci", clues |-> {"blobs", "index.json", "oci-layout"}],
       [image_format |-> "docker", clues |-> {"manifest.json"}] >>

\* clue_files_by_image_format, in dictionary order
FormatClues ==
    << [image_format |-> "docker", clues |-> {"manifest.json"}],
       [image_format |-> "oci", clues |-> {"blobs", "index.json", "oci-layout"}] >>

RECURSIVE FindFormatFrom(_, _)
FindFormatFrom(files, i) ==
    IF i > Len(FormatClues) THEN None
    ELSE IF FormatClues[i].clues \subseteq files THEN FormatClues[i].image_format
    ELSE FindFormatFrom(files, i + 1)

find_format(listing) == FindFormatFrom(ListDir(listing), 1)

FormatStart ==
    /\ fm_isdir \in BOOLEAN
    /\ fm_listing \in (IF fm_isdir THEN Listings ELSE {{}})
    /\ fm_format = None
    /\ fm_pc = "start"

\* get_images_from_dir: raise Exception('Not a directory')
NotADirectory ==
    /\ fm_pc = "start"
    /\ ~fm_isdir
    /\ fm_pc' = "failed"
    /\ UNCHANGED <<fm_isdir, fm_listing, fm_format>>
    /\ UNCHANGED fmOthers

\* get_images_from_dir: image_format = Image.find_format(extracted_location)
FindFormat ==
    /\ fm_pc = "start"
    /\ fm_isdir
    /\ fm_format' = find_format(fm_listing)
    /\ fm_pc' = "detected"
    /\ UNCHANGED <<fm_isdir, fm_listing>>
    /\ UNCHANGED fmOthers

\* get_images_from_dir: hand over to the format's loader, or raise
Dispatch ==
    /\ fm_pc = "detected"
    /\ fm_pc' = IF fm_format = "docker" THEN "docker_loader"
                ELSE IF fm_format = "oci" THEN "oci_loader"
                ELSE "failed"
    /\ UNCHANGED <<fm_isdir, fm_listing, fm_format>>
    /\ UNCHANGED fmOthers

--------------------------------------------------------------------------
(* utils.py: sha256_digest, as_bare_id; image.py: the Docker and OCI loaders *)

\* Hexadecimal digests. A digest string is a sequence of tokens: "h1" is
\* <<"h1">>, "sha256:h1" is <<SHA, "h1">> and the empty string is <<>>.
Hex == {"h1", "h2"}

SHA == "sha256:"

\* The content digest of a file, as the file system holds it: a hex value,
\* or Missing when there is no file at the location.
Missing == "<missing>"

sha256_digest(on_disk) == IF on_disk = Missing THEN <<None>> ELSE <<on_disk>>

as_bare_id(string) ==
    IF string = <<>> THEN string
    ELSE IF Head(string) = SHA THEN Tail(string)
    ELSE string

Min(a, b) == IF a <= b THEN a ELSE b

NoImage == <<>>

NewImage(image_format, image_id, config_digest, layers, history) ==
    [image_format |-> image_format,
     image_id |-> image_id,
     config_digest |-> config_digest,
     layers |-> layers,
     history |-> history]

\* The history entries the loaders are run on.
LoadHistoryEntries ==
    { h \in HistoryEntries :
        /\ h.empty_layer \in {"absent", "true"}
        /\ h.author \in {"A", ""} /\ h.created = "T"
        /\ h.created_by = "cmd" /\ h.comment = None
        /\ h.empty_layer = "true" => h.author = "" }

\* One entry of manifest.json with the files it names: the name of the config
\* file without .json, the digest of that file's content, the config's rootfs
\* and history, and for each path of Layers the digest of the file there.
DockerDiffIds == { <<SHA, "h1">>, <<SHA, "h2">>, <<"h1">>, <<>> }

DockerInputs ==
    [config_name : Hex,
     config_on_disk : Hex,
     rootfs_type : {"layers", "other"},
     diff_ids : SeqsUpTo(DockerDiffIds, MaxLayers),
     layer_files : SeqsUpTo(Hex, MaxLayers),
     history : SeqsUpTo(LoadHistoryEntries, MaxHistory)]

\* if verify and image_id != as_bare_id(config_digest): raise
ConfigMismatch(image_id, config_digest, verify) ==
    verify /\ image_id # as_bare_id(config_digest)

\* A variant that never compares a layer with its archive.
LayerNeverChecked(layer_sha256, on_disk_layer_sha256, verify) == FALSE

\* if verify: if layer_sha256 != on_disk_layer_sha256: raise
LayerMismatch(layer_sha256, on_disk_layer_sha256, verify) ==
    verify /\ layer_sha256 # on_disk_layer_sha256

\* The result of from_docker_manifest_config: NoImage when it raises.
from_docker_manifest_config(manifest_config, verify) ==
    LET image_id == <<manifest_config.config_name>>
        config_digest == sha256_digest(manifest_config.config_on_disk)
        diff_ids == manifest_config.diff_ids
        layers_sha256s == [i \in 1..Len(diff_ids) |-> as_bare_id(diff_ids[i])]
        zipped == Min(Len(manifest_config.layer_files), Len(layers_sha256s))
        on_disk(i) == sha256_digest(manifest_config.layer_files[i])
        layers == [i \in 1..zipped |->
                      NewLayer(<<"layers", i>>, layers_sha256s[i], on_disk(i))]
    IN  IF ConfigMismatch(image_id, config_digest, verify) THEN NoImage
        ELSE IF manifest_config.rootfs_type # "layers" THEN NoImage
        ELSE IF \E i \in 1..zipped : LayerMismatch(layers_sha256s[i], on_disk(i), verify)
             THEN NoImage
        ELSE NewImage("docker", image_id, <<SHA>> \o image_id,
                      assign_history_to_layers(manifest_config.history, layers),
                      manifest_config.history)

LoadStart ==
    /\ ld_format \in {"docker", "oci"}
    /\ ld_verify \in BOOLEAN
    /\ ld_disk = <<>>
    /\ ld_image = NoImage
    /\ ld_pc = "start"

\* get_docker_images_from_dir on a manifest.json with one entry
LoadDocker ==
    /\ ld_pc = "start"
    /\ ld_format = "docker"
    /\ \E manifest_config \in DockerInputs :
          /\ ld_disk' = manifest_config
          /\ ld_image' = from_docker_manifest_config(manifest_config, ld_verify)
    /\ ld_pc' = IF ld_image' = NoImage THEN "failed" ELSE "loaded"
    /\ UNCHANGED <<ld_format, ld_verify>>
    /\ UNCHANGED ldOthers

\* A variant that only checks that the blob exists.
get_oci_blob_unverified(sha256, on_disk, verify) == on_disk # Missing

\* get_oci_blob: TRUE when it returns the blob's location, FALSE when it
\* raises. on_disk is the digest of the file named sha256 under blobs/sha256.
get_oci_blob(sha256, on_disk, verify) ==
    IF on_disk = Missing THEN FALSE
    ELSE IF verify /\ sha256 # sha256_digest(on_disk) THEN FALSE
    ELSE TRUE

BlobLocation(sha256) == <<"blobs", "sha256">> \o sha256

OCI_MANIFEST == "application/vnd.oci.image.manifest.v1+json"

MediaTypes == {OCI_MANIFEST, "application/vnd.oci.image.index.v1+json"}

SchemaVersions == {1, 2}

OciDigests == { <<SHA, h>> : h \in Hex } \cup { <<"h1">> }

\* get_oci_images_from_dir: read index.json (one manifest entry) and check
\* its schema version and the entry's media type.
OciReadIndex ==
    /\ ld_pc = "start"
    /\ ld_format = "oci"
    /\ \E sv \in SchemaVersions, mt \in MediaTypes :
          /\ ld_disk' = [schemaversion |-> sv, mediatype |-> mt,
                         manifest_digest |-> <<SHA, "hm">>]
          /\ ld_pc' = IF sv # 2 THEN "failed"
                      ELSE IF mt # OCI_MANIFEST THEN "failed"
                      ELSE "index_read"
    /\ UNCHANGED <<ld_format, ld_verify, ld_image>>
    /\ UNCHANGED ldOthers

\* get_oci_images_from_dir: fetch the manifest blob and read its config
\* digest and its layers.
OciReadManifest ==
    /\ ld_pc = "index_read"
    /\ \E on_disk \in {"hm", "h1"} :
          IF get_oci_blob(as_bare_id(ld_disk.manifest_digest), on_disk, ld_verify)
          THEN \E config_digest \in { <<SHA, "hc">>, <<"hc">> },
                  layers \in SeqsUpTo(OciDigests, MaxLayers) :
                  /\ ld_disk' = ld_disk @@ [manifest_on_disk |-> on_disk,
                                            config_digest |-> config_digest,
                                            layers |-> layers]
                  /\ ld_pc' = "manifest_read"
          ELSE /\ ld_disk' = ld_disk @@ [manifest_on_disk |-> on_disk]
               /\ ld_pc' = "failed"
    /\ UNCHANGED <<ld_format, ld_verify, ld_image>>
    /\ UNCHANGED ldOthers

\* get_oci_images_from_dir: fetch the config blob and read it.
OciReadConfig ==
    /\ ld_pc = "manifest_read"
    /\ \E on_disk \in {"hc", "h1"} :
          IF get_oci_blob(as_bare_id(ld_disk.config_digest), on_disk, ld_verify)
          THEN \E rootfs_type \in {"layers", "other"},
                  diff_ids \in SeqsUpTo({ <<SHA, "h2">> }, MaxLayers),
                  history \in SeqsUpTo(LoadHistoryEntries, MaxHistory) :
                  /\ ld_disk' = ld_disk @@ [config_on_disk |-> on_disk,
                                            rootfs_type |-> rootfs_type,
                                            diff_ids |-> diff_ids,
                                            history |-> history]
                  /\ ld_pc' = "config_read"
          ELSE /\ ld_disk' = ld_disk @@ [config_on_disk |-> on_disk]
               /\ ld_pc' = "failed"
    /\ UNCHANGED <<ld_format, ld_verify, ld_image>>
    /\ UNCHANGED ldOthers

\* The layers loop of get_oci_images_from_dir.
OciLayer(layer_digest, blobs) ==
    LET layer_sha256 == as_bare_id(layer_digest)
    IN  NewLayer(BlobLocation(layer_sha256), layer_sha256,
                 sha256_digest(blobs[layer_sha256[1]]))

\* get_oci_images_from_dir: fetch each layer blob, build the layers, assign
\* the history and build the Image. blobs gives the content digest of the
\* file at blobs/sha256/<name>.
OciBuildImage ==
    /\ ld_pc = "config_read"
    /\ \E blobs \in [Hex -> Hex \cup {Missing}] :
          LET manifest_layers == ld_disk.layers
              config_sha256 == as_bare_id(ld_disk.config_digest)
              layers == [i \in 1..Len(manifest_layers) |->
                            OciLayer(manifest_layers[i], blobs)]
          IN  /\ ld_disk' = ld_disk @@ [blobs |-> blobs]
              /\ IF \A i \in 1..Len(manifest_layers) :
                       get_oci_blob(as_bare_id(manifest_layers[i]),
                                    blobs[as_bare_id(manifest_layers[i])[1]],
                                    ld_verify)
                 THEN /\ ld_image' = NewImage("oci", config_sha256,
                                ld_disk.config_digest,
                                assign_history_to_layers(ld_disk.history, layers),
                                ld_disk.history)
                      /\ ld_pc' = "loaded"
                 ELSE /\ ld_image' = NoImage
                      /\ ld_pc' = "failed"
    /\ UNCHANGED <<ld_format, ld_verify>>
    /\ UNCHANGED ldOthers

--------------------------------------------------------------------------
(* image.py: Image.get_installed_packages *)

Purls == {"p1", "p2"}

\* What packages_getter yields for one layer: a list of purls. The package
\* object yielded with a purl is named by where it was yielded: <<layer, pos>>.
GetterOutputs == SeqsUpTo(Purls, MaxPurls)

\* A variant that takes no purl for seen.
NeverSeen(purl, seen_packages) == FALSE

\* if purl in seen_packages: continue
IsSeen(purl, seen_packages) == purl \in seen_packages

PackagesStart ==
    /\ pk_outputs \in SeqsUpTo(GetterOutputs, MaxLayers)
    /\ pk_layer = 1
    /\ pk_pos = 1
    /\ pk_calls = <<>>
    /\ pk_seen = {}
    /\ pk_yielded = <<>>
    /\ pk_pc = "layers"

\* for layer in self.layers: layer.get_installed_packages(packages_getter)
CallGetter ==
    /\ pk_pc = "layers"
    /\ pk_layer <= Len(pk_outputs)
    /\ pk_calls' = Append(pk_calls, pk_layer)
    /\ pk_pos' = 1
    /\ pk_pc' = "packages"
    /\ UNCHANGED <<pk_outputs, pk_layer, pk_seen, pk_yielded>>
    /\ UNCHANGED pkOthers

\* a purl that was seen: continue
SkipSeenPackage ==
    /\ pk_pc = "packages"
    /\ pk_pos <= Len(pk_outputs[pk_layer])
    /\ IsSeen(pk_outputs[pk_layer][pk_pos], pk_seen)
    /\ pk_pos' = pk_pos + 1
    /\ UNCHANGED <<pk_outputs, pk_layer, pk_calls, pk_seen, pk_yielded, pk_pc>>
    /\ UNCHANGED pkOthers

\* seen_packages.add(purl); yield purl, package, layer
YieldPackage ==
    /\ pk_pc = "packages"
    /\ pk_pos <= Len(pk_outputs[pk_layer])
    /\ ~IsSeen(pk_outputs[pk_layer][pk_pos], pk_seen)
    /\ pk_seen' = pk_seen \cup {pk_outputs[pk_layer][pk_pos]}
    /\ pk_yielded' = Append(pk_yielded,
                        [purl |-> pk_outputs[pk_layer][pk_pos],
                         package |-> <<pk_layer, pk_pos>>,
                         layer |-> pk_layer])
    /\ pk_pos' = pk_pos + 1
    /\ UNCHANGED <<pk_outputs, pk_layer, pk_calls, pk_pc>>
    /\ UNCHANGED pkOthers

\* the getter's output for this layer is exhausted: next layer
NextLayer ==
    /\ pk_pc = "packages"
    /\ pk_pos > Len(pk_outputs[pk_layer])
    /\ pk_layer' = pk_layer + 1
    /\ pk_pc' = "layers"
    /\ UNCHANGED <<pk_outputs, pk_pos, pk_calls, pk_seen, pk_yielded>>
    /\ UNCHANGED pkOthers

\* the layers are exhausted: the generator ends
PackagesReturn ==
    /\ pk_pc = "layers"
    /\ pk_layer > Len(pk_outputs)
    /\ pk_pc' = "done"
    /\ UNCHANGED <<pk_outputs, pk_layer, pk_pos, pk_calls, pk_seen, pk_yielded>>
    /\ UNCHANGED pkOthers

--------------------------------------------------------------------------
(* conan/image_v10.py: LayerOld.sort *)

\* The parent_id of the root layer (Python's None); layer ids start at 1.
NoParent == 0

\* The layers of one parent chain: layer i has parent i - 1, layer 1 is the
\* root.
LayerOld(i) == [layer_id |-> i, parent_id |-> i - 1]

\* Any layers of the chain, each at most once, in any order.
ChainInputs ==
    { [i \in 1..Len(ids) |-> LayerOld(ids[i])] :
        ids \in { s \in SeqsUpTo(1..MaxChain, MaxChain) :
                    \A i, j \in 1..Len(s) : s[i] = s[j] => i = j } }

\* A root layer that is not of the chain.
OtherRoot == [layer_id |-> MaxChain + 2, parent_id |-> NoParent]

\* Layers of the chain together with the other root, at any place.
TwoRootInputs ==
    UNION { { SubSeq(c, 1, k) \o <<OtherRoot>> \o SubSeq(c, k + 1, Len(c)) :
                k \in 0..Len(c) } : c \in ChainInputs }

\* Layer i of a parent cycle of n layers: the parent of layer 1 is layer n.
CycleLayer(i, n) == [layer_id |-> i, parent_id |-> IF i = 1 THEN n ELSE i - 1]

\* All the layers of a parent cycle, in any order.
CycleInputs ==
    { [i \in 1..Len(ids) |-> CycleLayer(ids[i], Len(ids))] :
        ids \in { s \in SeqsUpTo(1..MaxChain, MaxChain) :
                    /\ s # <<>>
                    /\ \A i \in 1..Len(s) : s[i] <= Len(s)
                    /\ \A i, j \in 1..Len(s) : s[i] = s[j] => i = j } }

\* The layers argument: layers of one chain, of one chain and another root,
\* or of a parent cycle.
SortInputs == ChainInputs \cup TwoRootInputs \cup CycleInputs

\* A variant that gives up after len(layers) cycles.
LinearCycles(layers) == Len(layers)

\* max_cycles = len(layers) ** 2
MaxCycles(layers) == Len(layers) * Len(layers)

\* A variant that never grows the sorted list at its bottom.
NeverChildOfFirst(current, sortedl) == FALSE

\* current.parent_id == sortedl[-1].layer_id
IsParentLast(current, sortedl) == current.parent_id = sortedl[Len(sortedl)].layer_id

\* current.layer_id == sortedl[0].parent_id
IsChildOfFirst(current, sortedl) == current.layer_id = sortedl[1].parent_id

SortStart ==
    /\ so_layers \in SortInputs
    /\ so_sortedl = <<>>
    /\ so_to_sort = so_layers
    /\ so_cycles = 0
    /\ so_result = <<>>
    /\ so_pc = "loop"

\* while to_sort: cycles += 1; current = to_sort.popleft()
SortStep ==
    /\ so_pc = "loop"
    /\ so_to_sort # <<>>
    /\ so_cycles' = so_cycles + 1
    /\ UNCHANGED <<so_layers, so_result>>

Current == Head(so_to_sort)

\* if not sortedl: sortedl.append(current)
SortFirst ==
    /\ SortStep
    /\ so_sortedl = <<>>
    /\ so_sortedl' = <<Current>>
    /\ so_to_sort' = Tail(so_to_sort)
    /\ so_pc' = "loop"
    /\ UNCHANGED soOthers

\* elif current.parent_id == sortedl[-1].layer_id: sortedl.append(current)
SortAppend ==
    /\ SortStep
    /\ so_sortedl # <<>>
    /\ IsParentLast(Current, so_sortedl)
    /\ so_sortedl' = Append(so_sortedl, Current)
    /\ so_to_sort' = Tail(so_to_sort)
    /\ so_pc' = "loop"
    /\ UNCHANGED soOthers

\* elif current.layer_id == sortedl[0].parent_id: sortedl.appendleft(current)
SortAppendLeft ==
    /\ SortStep
    /\ so_sortedl # <<>>
    /\ ~IsParentLast(Current, so_sortedl)
    /\ IsChildOfFirst(Current, so_sortedl)
    /\ so_sortedl' = <<Current>> \o so_sortedl
    /\ so_to_sort' = Tail(so_to_sort)
    /\ so_pc' = "loop"
    /\ UNCHANGED soOthers

\* else: to_sort.append(current), and cycles <= max_cycles
SortRequeue ==
    /\ SortStep
    /\ so_sortedl # <<>>
    /\ ~IsParentLast(Current, so_sortedl)
    /\ ~IsChildOfFirst(Current, so_sortedl)
    /\ so_to_sort' = Append(Tail(so_to_sort), Current)
    /\ ~(so_cycles' > MaxCycles(so_layers))
    /\ so_pc' = "loop"
    /\ UNCHANGED so_sortedl
    /\ UNCHANGED soOthers

\* else: to_sort.append(current); if cycles > max_cycles: raise
SortRaise ==
    /\ SortStep
    /\ so_sortedl # <<>>
    /\ ~IsParentLast(Current, so_sortedl)
    /\ ~IsChildOfFirst(Current, so_sortedl)
    /\ so_to_sort' = Append(Tail(so_to_sort), Current)
    /\ so_cycles' > MaxCycles(so_layers)
    /\ so_pc' = "raised"
    /\ UNCHANGED so_sortedl
    /\ UNCHANGED soOthers

\* if not layers: return layers, and return list(sortedl) after the loop
SortReturn ==
    /\ so_pc = "loop"
    /\ so_to_sort = <<>>
    /\ so_result' = so_sortedl
    /\ so_pc' = "returned"
    /\ UNCHANGED <<so_layers, so_sortedl, so_to_sort, so_cycles>>
    /\ UNCHANGED soOthers

--------------------------------------------------------------------------
(* distro.py: Distro.from_rootfs, Distro.merge *)

\* An optional Distro is <<>> (Python's None) or <<d>> with d a Distro.
NoDistro == <<>>

\* The Distro attributes that the model follows.
DistroFields == {"os", "name", "identifier", "architecture", "version"}

\* Distro(...): every attribute defaults to None.
NewDistro == [f \in DistroFields |-> None]

\* An os-release file as the mapping parse_os_release returns: a key that the
\* file does not hold has the value None here.
OsReleaseFiles ==
    [OS : {None, "", "freebsd"}, ID : {None, "debian"},
     ARCHITECTURE : {None, "arm"}, VERSION : {None, "", "v2"}]

\* data.pop(key, default)
Pop(data, key, default) == IF data[key] = None THEN default ELSE data[key]

\* x or y
Or(x, y) == IF Truthy(x) THEN x ELSE y

\* from_os_release_file of an existing file
from_os_release_file(data) ==
    [os |-> Or(Pop(data, "OS", "linux"), "linux"),
     name |-> "linux",
     identifier |-> Or(Pop(data, "ID", "linux"), "linux"),
     architecture |-> Pop(data, "ARCHITECTURE", None),
     version |-> Pop(data, "VERSION", None)]

\* find_linux_details: the os-release file of the rootfs, <<>> when it has
\* none.
find_linux_details(os_release) ==
    IF os_release = <<>> THEN NoDistro
    ELSE <<from_os_release_file(os_release[1])>>

\* find_windows_details: windows_root tells whether find_root finds a
\* Windows root in the rootfs.
find_windows_details(windows_root) ==
    IF windows_root
    THEN <<[NewDistro EXCEPT !.os = "windows", !.identifier = "windows"]>>
    ELSE NoDistro

\* find_freebsd_details
find_freebsd_details == NoDistro

\* The finders in the order from_rootfs tries them.
Finders == <<"linux", "windows", "freebsd">>

\* finder(location)
Finder(finder_os, os_release, windows_root) ==
    CASE finder_os = "linux" -> find_linux_details(os_release)
      [] finder_os = "windows" -> find_windows_details(windows_root)
      [] finder_os = "freebsd" -> find_freebsd_details

\* The OS of the first finder that finds a distro, None when none does.
FirstFinder(os_release, windows_root) ==
    LET hits == { i \in 1..Len(Finders) :
                    Finder(Finders[i], os_release, windows_root) # NoDistro }
    IN IF hits = {} THEN None
       ELSE Finders[CHOOSE i \in hits : \A j \in hits : i <= j]

\* self.merge(other_distro)
merge(self, other) ==
    [f \in DistroFields |-> IF Truthy(other[f]) THEN other[f] ELSE self[f]]

\* The base_distro argument: None, or a Distro as Image.get_and_set_distro
\* builds it, from an os and an architecture.
BaseDistros ==
    {NoDistro} \cup
    { <<[NewDistro EXCEPT !.os = o, !.architecture = a]>> :
        o \in {None, "linux", "windows", "freebsd"}, a \in {None, "amd64"} }

DistroStart ==
    /\ di_exists \in BOOLEAN
    /\ di_os_release \in {<<>>} \cup { <<f>> : f \in OsReleaseFiles }
    /\ di_windows_root \in BOOLEAN
    /\ di_base \in BaseDistros
    /\ di_found = NoDistro
    /\ di_result = NoDistro
    /\ di_pc = "call"

\* if not location or not os.path.exists(location): return
FromRootfsNoLocation ==
    /\ di_pc = "call"
    /\ ~di_exists
    /\ di_result' = NoDistro
    /\ di_pc' = "returned"
    /\ UNCHANGED <<di_exists, di_os_release, di_windows_root, di_base, di_found>>
    /\ UNCHANGED diOthers

\* No finder finds a distro: the loop ends and the call returns None.
FromRootfsNotFound ==
    /\ di_pc = "call"
    /\ di_exists
    /\ FirstFinder(di_os_release, di_windows_root) = None
    /\ di_result' = NoDistro
    /\ di_pc' = "returned"
    /\ UNCHANGED <<di_exists, di_os_release, di_windows_root, di_base, di_found>>
    /\ UNCHANGED diOthers

\* if found: ... without a base_distro: return found
FromRootfsFound ==
    /\ di_pc = "call"
    /\ di_exists
    /\ FirstFinder(di_os_release, di_windows_root) # None
    /\ di_base = NoDistro
    /\ di_found' = Finder(FirstFinder(di_os_release, di_windows_root),
                          di_os_release, di_windows_root)
    /\ di_result' = di_found'
    /\ di_pc' = "returned"
    /\ UNCHANGED <<di_exists, di_os_release, di_windows_root, di_base>>
    /\ UNCHANGED diOthers

\* if base_distro.os != finder_os: raise Exception(...)
FromRootfsRaise ==
    /\ di_pc = "call"
    /\ di_exists
    /\ FirstFinder(di_os_release, di_windows_root) # None
    /\ di_base # NoDistro
    /\ di_base[1].os # FirstFinder(di_os_release, di_windows_root)
    /\ di_found' = Finder(FirstFinder(di_os_release, di_windows_root),
                          di_os_release, di_windows_root)
    /\ di_pc' = "raised"
    /\ UNCHANGED <<di_exists, di_os_release, di_windows_root, di_base, di_result>>
    /\ UNCHANGED diOthers

\* merged = base_distro.merge(found); return merged
FromRootfsMerge ==
    /\ di_pc = "call"
    /\ di_exists
    /\ FirstFinder(di_os_release, di_windows_root) # None
    /\ di_base # NoDistro
    /\ di_base[1].os = FirstFinder(di_os_release, di_windows_root)
    /\ di_found' = Finder(FirstFinder(di_os_release, di_windows_root),
                          di_os_release, di_windows_root)
    /\ di_result' = <<merge(di_base[1], di_found'[1])>>
    /\ di_pc' = "returned"
    /\ UNCHANGED <<di_exists, di_os_release, di_windows_root, di_base>>
    /\ UNCHANGED diOthers

--------------------------------------------------------------------------
(* rootfs.py: find_root *)

\* The location argument, as a path.
Location == <<"baz">>

\* root_paths: the names that mark the root of a filesystem.
RootPaths == {"bin", "usr"}

\* What a directory can hold besides its subdirectories: dirs + files.
RootListings == {{"foo"}, {"bin", "foo"}, {"bin", "usr"}}

\* The trees of at most MaxDirs directories in the order os.walk visits them
\* top-down: the depth of each directory, the first being the location and
\* each next one a child of one of the directories on the path to the
\* previous one.
WalkDepths ==
    { d \in SeqsUpTo(0..(MaxDirs - 1), MaxDirs) :
        /\ d # <<>>
        /\ d[1] = 0
        /\ \A i \in 2..Len(d) : d[i] >= 1 /\ d[i] <= d[i - 1] + 1 }

\* The index of the parent of directory i of a walk: the last directory
\* before i that is one level higher.
ParentOf(d, i) ==
    CHOOSE p \in 1..(i - 1) :
        /\ d[p] = d[i] - 1
        /\ \A q \in (p + 1)..(i - 1) : d[q] >= d[i]

\* The path of directory i of a walk: a subdirectory is named by its index.
RECURSIVE TopOf(_, _)
TopOf(d, i) == IF i = 1 THEN Location ELSE Append(TopOf(d, ParentOf(d, i)), i)

\* compute_path_depth(root_path, dir_path): the number of segments of
\* dir_path below root_path.
compute_path_depth(root_path, dir_path) ==
    IF dir_path = <<>> THEN 0
    ELSE IF root_path = <<>> THEN Len(dir_path)
    ELSE Len(SubSeq(dir_path, Len(root_path) + 1, Len(dir_path)))

\* matches = len(set(dirs + files) & root_paths)
Matches(listing) == Cardinality(listing \cap RootPaths)

FindRootStart ==
    /\ fr_depths \in WalkDepths
    /\ fr_listings \in [1..Len(fr_depths) -> RootListings]
    /\ fr_max_depth \in 0..2
    /\ fr_min_paths \in 1..2
    /\ fr_idx = 1
    /\ fr_result = NoPath
    /\ fr_pc = "walk"

\* The directory the walk is at.
Top == TopOf(fr_depths, fr_idx)

\* if max_depth: depth = compute_path_depth(location, top);
\* if depth > max_depth: return
TooDeep ==
    /\ fr_max_depth # 0
    /\ compute_path_depth(Location, Top) > fr_max_depth

\* The walk reaches a directory below max_depth: return None.
FindRootTooDeep ==
    /\ fr_pc = "walk"
    /\ fr_idx <= Len(fr_depths)
    /\ TooDeep
    /\ fr_result' = NoPath
    /\ fr_pc' = "returned"
    /\ UNCHANGED <<fr_depths, fr_listings, fr_max_depth, fr_min_paths, fr_idx>>
    /\ UNCHANGED frOthers

\* if matches >= min_paths: return top
FindRootMatch ==
    /\ fr_pc = "walk"
    /\ fr_idx <= Len(fr_depths)
    /\ ~TooDeep
    /\ Matches(fr_listings[fr_idx]) >= fr_min_paths
    /\ fr_result' = Top
    /\ fr_pc' = "returned"
    /\ UNCHANGED <<fr_depths, fr_listings, fr_max_depth, fr_min_paths, fr_idx>>
    /\ UNCHANGED frOthers

\* Not enough matches: the walk goes on with the next directory.
FindRootContinue ==
    /\ fr_pc = "walk"
    /\ fr_idx <= Len(fr_depths)
    /\ ~TooDeep
    /\ Matches(fr_listings[fr_idx]) < fr_min_paths
    /\ fr_idx' = fr_idx + 1
    /\ UNCHANGED <<fr_depths, fr_listings, fr_max_depth, fr_min_paths, fr_result, fr_pc>>
    /\ UNCHANGED frOthers

\* The walk is over: return None.
FindRootEnd ==
    /\ fr_pc = "walk"
    /\ fr_idx > Len(fr_depths)
    /\ fr_result' = NoPath
    /\ fr_pc' = "returned"
    /\ UNCHANGED <<fr_depths, fr_listings, fr_max_depth, fr_min_paths, fr_idx>>
    /\ UNCHANGED frOthers

--------------------------------------------------------------------------
(* image.py: Image.extract_layers, squash, get_and_set_distro, cleanup and
   Layer.get_resources *)

\* An unset extracted_location (Python's None).
Unset == <<>>

\* The directory of the image layout: Image.extracted_location.
ImageDir == <<"img">>

\* The extracted_location argument of extract_layers: a directory inside the
\* image directory or outside of it.
ExtractRoots == {"in", "out"}

\* os.path.join(extracted_location, layer.layer_id)
LayerDir(root, i) == <<root, i>>

\* tempfile.mkdtemp(...) for layer i in a call of rebuild_rootfs that deletes
\* it, and in a call that fails before deleting it.
TempDir(i) == <<"tmp", i>>
LeftTempDir(i) == <<"left", i>>

\* The metadata of an image.
ImageMetas == [image_id : {"id1"}, tags : {<<>>, <<"t1">>}, history : {<<>>, <<"h1">>}]

ImageStart ==
    /\ im_count \in 0..MaxLayers
    /\ im_meta \in ImageMetas
    /\ im_exloc = ImageDir
    /\ im_layer_exloc = [i \in 1..im_count |-> Unset]
    /\ im_disk = {ImageDir}
    /\ im_last = <<"new", "ok">>
    /\ im_pc = "ready"

\* extract_layers(extracted_location): every layer is extracted to its own
\* directory; Layer.extract sets the attribute, then extract_tar creates the
\* directory and reads the archive, which raises for an archive that is not
\* a tarball (failed = the first such layer, 0 when there is none).
ImageExtractLayers ==
    /\ im_pc = "ready"
    /\ \E root \in ExtractRoots, failed \in 0..im_count :
          LET done == IF failed = 0 THEN 1..im_count ELSE 1..failed
          IN /\ im_layer_exloc' =
                  [i \in 1..im_count |->
                      IF i \in done THEN LayerDir(root, i) ELSE im_layer_exloc[i]]
             /\ im_disk' = im_disk \cup { LayerDir(root, i) : i \in done }
                               \cup (IF root = "in" /\ done # {} THEN {ImageDir} ELSE {})
             /\ im_last' = <<"extract_layers", IF failed = 0 THEN "ok" ELSE "raised">>
    /\ UNCHANGED <<im_count, im_meta, im_exloc, im_pc>>
    /\ UNCHANGED imOthers

\* squash(target_dir): rebuild_rootfs extracts every layer to a temporary
\* directory and deletes that directory after the copy; a layer whose
\* extraction raises ends the call with its temporary directory left.
ImageSquash ==
    /\ im_pc = "ready"
    /\ \E failed \in 0..im_count :
          /\ im_layer_exloc' =
                [i \in 1..im_count |->
                    IF failed = 0 \/ i < failed THEN TempDir(i)
                    ELSE IF i = failed THEN LeftTempDir(i)
                    ELSE im_layer_exloc[i]]
          /\ im_disk' = im_disk \cup (IF failed = 0 THEN {} ELSE {LeftTempDir(failed)})
          /\ im_last' = <<"squash", IF failed = 0 THEN "ok" ELSE "raised">>
    /\ UNCHANGED <<im_count, im_meta, im_exloc, im_pc>>
    /\ UNCHANGED imOthers

\* get_and_set_distro(): self.layers[0] raises an IndexError without layers;
\* then 'The image has not been extracted.'; then Distro.from_rootfs, which
\* returns a Distro or None or raises.
ImageGetAndSetDistro ==
    /\ im_pc = "ready"
    /\ \E outcome \in {"ok", "raised"} :
          im_last' = <<"get_and_set_distro",
                       IF im_count = 0 THEN "IndexError"
                       ELSE IF im_layer_exloc[1] = Unset THEN "not extracted"
                       ELSE outcome>>
    /\ UNCHANGED <<im_count, im_meta, im_exloc, im_layer_exloc, im_disk, im_pc>>
    /\ UNCHANGED imOthers

\* layer.get_resources(): 'The layer has not been extracted.' or a walk of
\* extracted_location.
LayerGetResources ==
    /\ im_pc = "ready"
    /\ \E i \in 1..im_count :
          im_last' = <<"get_resources",
                       IF im_layer_exloc[i] = Unset THEN "not extracted" ELSE "ok">>
    /\ UNCHANGED <<im_count, im_meta, im_exloc, im_layer_exloc, im_disk, im_pc>>
    /\ UNCHANGED imOthers

\* delete(location): the directory and everything below it
DeleteDir(disk, location) ==
    IF location = ImageDir
    THEN { d \in disk : d # ImageDir /\ d[1] # "in" }
    ELSE disk \ {location}

\* A variant of cleanup that leaves the layers as they are.
ImageCleanupImageOnly ==
    /\ im_pc = "ready"
    /\ im_disk' = IF im_exloc # Unset THEN DeleteDir(im_disk, im_exloc) ELSE im_disk
    /\ im_exloc' = Unset
    /\ im_last' = <<"cleanup", "ok">>
    /\ UNCHANGED <<im_count, im_meta, im_layer_exloc, im_pc>>
    /\ UNCHANGED imOthers

\* cleanup()
ImageCleanup ==
    /\ im_pc = "ready"
    /\ im_disk' = IF im_exloc # Unset THEN DeleteDir(im_disk, im_exloc) ELSE im_disk
    /\ im_layer_exloc' = [i \in 1..im_count |-> Unset]
    /\ im_exloc' = Unset
    /\ im_last' = <<"cleanup", "ok">>
    /\ UNCHANGED <<im_count, im_meta, im_pc>>
    /\ UNCHANGED imOthers

--------------------------------------------------------------------------
(* image.py: Image.extract, Image.get_images_from_tarball *)

\* The functions that the module utils defines for extracting a tarball.
UtilsFunctions == {"extract_tar", "extract_tar_with_symlinks"}

\* The images an image tarball holds: for each image the ids of its layers,
\* bottom first.
TarballImages ==
    SeqsUpTo(SeqsUpTo({"l1", "l2"}, MaxLayers) \ {<<>>}, MaxImages)

\* An image tarball: the top-level listing of its tree and the images that
\* the metadata of that tree describes.
Tarballs == [listing : Listings, images : TarballImages]

TarballStart ==
    /\ tb_archive \in Tarballs
    /\ tb_verify \in BOOLEAN
    /\ tb_extracted = {}
    /\ tb_call = None
    /\ tb_result = <<>>
    /\ tb_pc = "start"

\* get_images_from_tarball: Image.extract calls
\* utils.extract_tar_keeping_symlinks, which utils does not define: the
\* attribute lookup raises AttributeError before anything is extracted.
GetImagesFromTarball ==
    /\ tb_pc = "start"
    /\ tb_call' = "tarball"
    /\ IF "extract_tar_keeping_symlinks" \in UtilsFunctions
       THEN /\ tb_extracted' = {tb_archive.listing}
            /\ tb_pc' = "extracted"
       ELSE /\ tb_extracted' = tb_extracted
            /\ tb_pc' = "raised"
    /\ UNCHANGED <<tb_archive, tb_verify, tb_result>>
    /\ UNCHANGED tbOthers

\* The tarball extracted with utils.extract_tar, as the tests of
\* get_images_from_dir do.
ExtractTestTar ==
    /\ tb_pc = "start"
    /\ tb_call' = "dir"
    /\ tb_extracted' = {tb_archive.listing}
    /\ tb_pc' = "extracted"
    /\ UNCHANGED <<tb_archive, tb_verify, tb_result>>
    /\ UNCHANGED tbOthers

\* os.listdir(extracted_location) of the extracted tree
ExtractedListing == CHOOSE l \in tb_extracted : TRUE

\* get_images_from_dir on the extracted tree: the images of the tree
GetImagesFromDir ==
    /\ tb_pc = "extracted"
    /\ find_format(ExtractedListing) # None
    /\ tb_result' = tb_archive.images
    /\ tb_pc' = "returned"
    /\ UNCHANGED <<tb_archive, tb_verify, tb_extracted, tb_call>>
    /\ UNCHANGED tbOthers

\* get_images_from_dir on the extracted tree: raise Exception('Unknown
\* container image format')
GetImagesFromDirUnknown ==
    /\ tb_pc = "extracted"
    /\ find_format(ExtractedListing) = None
    /\ tb_pc' = "raised"
    /\ UNCHANGED <<tb_archive, tb_verify, tb_extracted, tb_call, tb_result>>
    /\ UNCHANGED tbOthers

--------------------------------------------------------------------------
(* dockerfile.py: map_image_to_dockerfile *)

\* The instructions and values of the Dockerfiles and layers looked at.
Instructions == {"RUN", "ENV"}

InstructionValues == {"v1", "v2"}

\* An entry of dockerfile['instructions'].
DockerfileEntries == [instruction : Instructions, value : InstructionValues]

\* The FROM entry that a Dockerfile starts with.
FromEntry == [instruction |-> "FROM", value |-> "base:tag"]

\* A layer, by the instruction and command it was created by.
AlignLayers == [instruction : Instructions, value : InstructionValues]

\* reversed(sequence)
Reversed(s) == [i \in 1..Len(s) |-> s[Len(s) - i + 1]]

\* The builtin map(None, a, b) of Python 3: an iterator over the shortest of
\* its arguments that calls its first argument for every item; the number
\* of items before it is exhausted.
MapLength(a, b) == Min(Len(a), Len(b))

AlignStart ==
    /\ al_layers \in SeqsUpTo(AlignLayers, MaxLayers)
    /\ al_instructions \in
          { <<FromEntry>> \o s : s \in SeqsUpTo(DockerfileEntries, MaxInstructions) }
    /\ al_base_layers = <<>>
    /\ al_error = None
    /\ al_pc = "call"

\* from_base = dockerfile['instructions'].pop(0); assert it is FROM
AlignPopFrom ==
    /\ al_pc = "call"
    /\ Head(al_instructions).instruction = "FROM"
    /\ al_instructions' = Tail(al_instructions)
    /\ al_pc' = "loop"
    /\ UNCHANGED <<al_layers, al_base_layers, al_error>>
    /\ UNCHANGED alOthers

\* for order, aln in enumerate(aligned): the first item makes map call None,
\* which raises TypeError: 'NoneType' object is not callable.
AlignRaiseTypeError ==
    /\ al_pc = "loop"
    /\ MapLength(Reversed(al_layers), Reversed(al_instructions)) > 0
    /\ al_error' = "TypeError"
    /\ al_pc' = "raised"
    /\ UNCHANGED <<al_layers, al_instructions, al_base_layers>>
    /\ UNCHANGED alOthers

\* The iterator has no item: the loop body never runs and the function
\* returns None.
AlignReturn ==
    /\ al_pc = "loop"
    /\ MapLength(Reversed(al_layers), Reversed(al_instructions)) = 0
    /\ al_pc' = "returned"
    /\ UNCHANGED <<al_layers, al_instructions, al_base_layers, al_error>>
    /\ UNCHANGED alOthers

--------------------------------------------------------------------------
(* image.py: Layer.get_resources *)

\* The directories and the regular files that an extracted layer may hold,
\* as paths below extracted_location.
ResourceDirs == {<<"a">>, <<"a", "b">>}

ResourceFiles == {<<"f">>, <<"a", "x">>, <<"a", "b", "y">>}

\* The extracted trees: every path has its parent directory in the tree.
ResourceTrees ==
    { t \in SUBSET (ResourceDirs \cup ResourceFiles) :
        \A p \in t : Len(p) > 1 => SubSeq(p, 1, Len(p) - 1) \in t }

\* The entries of the directory top of a tree.
ChildrenOf(tree, top) ==
    { p \in tree : Len(p) = Len(top) + 1 /\ SubSeq(p, 1, Len(top)) = top }

\* build_resource(_top, _name, _is_file)
build_resource(path, is_file) == [path |-> path, is_file |-> is_file]

ResourcesStart ==
    /\ rs_tree \in ResourceTrees
    /\ rs_extracted \in BOOLEAN
    /\ rs_with_dir \in BOOLEAN
    /\ rs_todo = <<>>
    /\ rs_resources = <<>>
    /\ rs_pc = "call"

\* if not self.extracted_location: raise Exception
GetResourcesNotExtracted ==
    /\ rs_pc = "call"
    /\ ~rs_extracted
    /\ rs_pc' = "raised"
    /\ UNCHANGED <<rs_tree, rs_extracted, rs_with_dir, rs_todo, rs_resources>>
    /\ UNCHANGED rsOthers

\* walker(self.extracted_location) starts at the top of the tree
GetResourcesCall ==
    /\ rs_pc = "call"
    /\ rs_extracted
    /\ rs_todo' = << <<>> >>
    /\ rs_pc' = "walk"
    /\ UNCHANGED <<rs_tree, rs_extracted, rs_with_dir, rs_resources>>
    /\ UNCHANGED rsOthers

\* One (top, dirs, files) of the walk: a Resource for every file, then with
\* with_dir a Resource for every directory, each built with _is_file=True.
GetResourcesWalk ==
    /\ rs_pc = "walk"
    /\ rs_todo # <<>>
    /\ LET top == Head(rs_todo)
           files == ChildrenOf(rs_tree, top) \cap ResourceFiles
           dirs == ChildrenOf(rs_tree, top) \cap ResourceDirs
           of_files == [i \in 1..Cardinality(files) |->
                           build_resource(SetToSeq(files)[i], TRUE)]
           of_dirs == [i \in 1..Cardinality(dirs) |->
                           build_resource(SetToSeq(dirs)[i], TRUE)]
       IN  /\ rs_resources' = rs_resources \o of_files
                                \o (IF rs_with_dir THEN of_dirs ELSE <<>>)
           /\ rs_todo' = SetToSeq(dirs) \o Tail(rs_todo)
    /\ UNCHANGED <<rs_tree, rs_extracted, rs_with_dir, rs_pc>>
    /\ UNCHANGED rsOthers

\* The walk is exhausted.
GetResourcesEnd ==
    /\ rs_pc = "walk"
    /\ rs_todo = <<>>
    /\ rs_pc' = "done"
    /\ UNCHANGED <<rs_tree, rs_extracted, rs_with_dir, rs_todo, rs_resources>>
    /\ UNCHANGED rsOthers

--------------------------------------------------------------------------
(* Specifications *)

SquashIdle ==
    /\ img_layers = <<>>
    /\ target = {}
    /\ tmp_tree = {}
    /\ tmp_live = {}
    /\ layer_exloc = <<>>
    /\ layer_num = 1
    /\ whiteouts = <<>>
    /\ deletions = <<>>
    /\ sq_pc = "idle"

ExtractIdle ==
    /\ tar_entries = <<>>
    /\ skip_symlinks = TRUE
    /\ ex_idx = 1
    /\ ex_fs = <<>>
    /\ ex_outside = {}
    /\ events = <<>>
    /\ ex_pc = "idle"

HistoryIdle ==
    /\ h_history = <<>>
    /\ h_layers = <<>>
    /\ h_pc = "idle"

FormatIdle ==
    /\ fm_isdir = TRUE
    /\ fm_listing = {}
    /\ fm_format = None
    /\ fm_pc = "idle"

LoadIdle ==
    /\ ld_format = None
    /\ ld_verify = TRUE
    /\ ld_disk = <<>>
    /\ ld_image = <<>>
    /\ ld_pc = "idle"

PackagesIdle ==
    /\ pk_outputs = <<>>
    /\ pk_layer = 1
    /\ pk_pos = 1
    /\ pk_calls = <<>>
    /\ pk_seen = {}
    /\ pk_yielded = <<>>
    /\ pk_pc = "idle"

SortIdle ==
    /\ so_layers = <<>>
    /\ so_sortedl = <<>>
    /\ so_to_sort = <<>>
    /\ so_cycles = 0
    /\ so_result = <<>>
    /\ so_pc = "idle"

DistroIdle ==
    /\ di_exists = FALSE
    /\ di_os_release = <<>>
    /\ di_windows_root = FALSE
    /\ di_base = <<>>
    /\ di_found = <<>>
    /\ di_result = <<>>
    /\ di_pc = "idle"

FindRootIdle ==
    /\ fr_depths = <<>>
    /\ fr_listings = <<>>
    /\ fr_max_depth = 0
    /\ fr_min_paths = 0
    /\ fr_idx = 0
    /\ fr_result = <<>>
    /\ fr_pc = "idle"

ImageIdle ==
    /\ im_count = 0
    /\ im_meta = <<>>
    /\ im_exloc = <<>>
    /\ im_layer_exloc = <<>>
    /\ im_disk = {}
    /\ im_last = <<>>
    /\ im_pc = "idle"

TarballIdle ==
    /\ tb_archive = <<>>
    /\ tb_verify = FALSE
    /\ tb_extracted = {}
    /\ tb_call = None
    /\ tb_result = <<>>
    /\ tb_pc = "idle"

AlignIdle ==
    /\ al_layers = <<>>
    /\ al_instructions = <<>>
    /\ al_base_layers = <<>>
    /\ al_error = None
    /\ al_pc = "idle"

ResourcesIdle ==
    /\ rs_tree = {}
    /\ rs_extracted = FALSE
    /\ rs_with_dir = FALSE
    /\ rs_todo = <<>>
    /\ rs_resources = <<>>
    /\ rs_pc = "idle"

SquashInit ==
    /\ SquashStart
    /\ ExtractIdle
    /\ HistoryIdle
    /\ FormatIdle
    /\ LoadIdle
    /\ PackagesIdle
    /\ SortIdle
    /\ DistroIdle
    /\ FindRootIdle
    /\ ImageIdle
    /\ TarballIdle
    /\ AlignIdle
    /\ ResourcesIdle

SquashNext ==
    \/ ExtractLayer
    \/ ExtractLayerFails
    \/ ApplyWhiteouts
    \/ CopyLayer
    \/ DeleteTemp
    \/ SquashReturn

SpecSquash == SquashInit /\ [][SquashNext]_vars

ExtractInit ==
    /\ ExtractStart
    /\ SquashIdle
    /\ HistoryIdle
    /\ FormatIdle
    /\ LoadIdle
    /\ PackagesIdle
    /\ SortIdle
    /\ DistroIdle
    /\ FindRootIdle
    /\ ImageIdle
    /\ TarballIdle
    /\ AlignIdle
    /\ ResourcesIdle

ExtractNext ==
    \/ SkipSpecial
    \/ SkipRelative
    \/ SkipLink
    \/ ExtractMember
    \/ ExtractReturn

SpecExtract == ExtractInit /\ [][ExtractNext]_vars

\* extract_tar runs on its caller's thread: a loop that can take a step takes
\* it.
SpecExtractFair == SpecExtract /\ WF_vars(ExtractNext)

HistoryInit ==
    /\ HistoryStart
    /\ SquashIdle
    /\ ExtractIdle
    /\ FormatIdle
    /\ LoadIdle
    /\ PackagesIdle
    /\ SortIdle
    /\ DistroIdle
    /\ FindRootIdle
    /\ ImageIdle
    /\ TarballIdle
    /\ AlignIdle
    /\ ResourcesIdle

HistoryNext == AssignHistory

SpecHistory == HistoryInit /\ [][HistoryNext]_vars

FormatInit ==
    /\ FormatStart
    /\ SquashIdle
    /\ ExtractIdle
    /\ HistoryIdle
    /\ LoadIdle
    /\ PackagesIdle
    /\ SortIdle
    /\ DistroIdle
    /\ FindRootIdle
    /\ ImageIdle
    /\ TarballIdle
    /\ AlignIdle
    /\ ResourcesIdle

FormatNext ==
    \/ NotADirectory
    \/ FindFormat
    \/ Dispatch

SpecFormat == FormatInit /\ [][FormatNext]_vars

LoadInit ==
    /\ LoadStart
    /\ SquashIdle
    /\ ExtractIdle
    /\ HistoryIdle
    /\ FormatIdle
    /\ PackagesIdle
    /\ SortIdle
    /\ DistroIdle
    /\ FindRootIdle
    /\ ImageIdle
    /\ TarballIdle
    /\ AlignIdle
    /\ ResourcesIdle

LoadNext ==
    \/ LoadDocker
    \/ OciReadIndex
    \/ OciReadManifest
    \/ OciReadConfig
    \/ OciBuildImage

SpecLoad == LoadInit /\ [][LoadNext]_vars

PackagesInit ==
    /\ PackagesStart
    /\ SquashIdle
    /\ ExtractIdle
    /\ HistoryIdle
    /\ FormatIdle
    /\ LoadIdle
    /\ SortIdle
    /\ DistroIdle
    /\ FindRootIdle
    /\ ImageIdle
    /\ TarballIdle
    /\ AlignIdle
    /\ ResourcesIdle

PackagesNext ==
    \/ CallGetter
    \/ SkipSeenPackage
    \/ YieldPackage
    \/ NextLayer
    \/ PackagesReturn

SpecPackages == PackagesInit /\ [][PackagesNext]_vars

SortInit ==
    /\ SortStart
    /\ SquashIdle
    /\ ExtractIdle
    /\ HistoryIdle
    /\ FormatIdle
    /\ LoadIdle
    /\ PackagesIdle
    /\ DistroIdle
    /\ FindRootIdle
    /\ ImageIdle
    /\ TarballIdle
    /\ AlignIdle
    /\ ResourcesIdle

SortNext ==
    \/ SortFirst
    \/ SortAppend
    \/ SortAppendLeft
    \/ SortRequeue
    \/ SortRaise
    \/ SortReturn

SpecSort == SortInit /\ [][SortNext]_vars

\* sort runs to its end: the loop is not interrupted.
SpecSortFair == SpecSort /\ WF_vars(SortNext)

DistroInit ==
    /\ DistroStart
    /\ SquashIdle
    /\ ExtractIdle
    /\ HistoryIdle
    /\ FormatIdle
    /\ LoadIdle
    /\ PackagesIdle
    /\ SortIdle
    /\ FindRootIdle
    /\ ImageIdle
    /\ TarballIdle
    /\ AlignIdle
    /\ ResourcesIdle

DistroNext ==
    \/ FromRootfsNoLocation
    \/ FromRootfsNotFound
    \/ FromRootfsFound
    \/ FromRootfsRaise
    \/ FromRootfsMerge

SpecDistro == DistroInit /\ [][DistroNext]_vars

FindRootInit ==
    /\ FindRootStart
    /\ SquashIdle
    /\ ExtractIdle
    /\ HistoryIdle
    /\ FormatIdle
    /\ LoadIdle
    /\ PackagesIdle
    /\ SortIdle
    /\ DistroIdle
    /\ ImageIdle
    /\ TarballIdle
    /\ AlignIdle
    /\ ResourcesIdle

FindRootNext ==
    \/ FindRootTooDeep
    \/ FindRootMatch
    \/ FindRootContinue
    \/ FindRootEnd

SpecFindRoot == FindRootInit /\ [][FindRootNext]_vars

ImageInit ==
    /\ ImageStart
    /\ SquashIdle
    /\ ExtractIdle
    /\ HistoryIdle
    /\ FormatIdle
    /\ LoadIdle
    /\ PackagesIdle
    /\ SortIdle
    /\ DistroIdle
    /\ FindRootIdle
    /\ TarballIdle
    /\ AlignIdle
    /\ ResourcesIdle

ImageNext ==
    \/ ImageExtractLayers
    \/ ImageSquash
    \/ ImageGetAndSetDistro
    \/ LayerGetResources
    \/ ImageCleanup

SpecImage == ImageInit /\ [][ImageNext]_vars

TarballInit ==
    /\ TarballStart
    /\ SquashIdle
    /\ ExtractIdle
    /\ HistoryIdle
    /\ FormatIdle
    /\ LoadIdle
    /\ PackagesIdle
    /\ SortIdle
    /\ DistroIdle
    /\ FindRootIdle
    /\ ImageIdle
    /\ AlignIdle
    /\ ResourcesIdle

TarballNext ==
    \/ GetImagesFromTarball
    \/ ExtractTestTar
    \/ GetImagesFromDir
    \/ GetImagesFromDirUnknown

SpecTarball == TarballInit /\ [][TarballNext]_vars

AlignInit ==
    /\ AlignStart
    /\ SquashIdle
    /\ ExtractIdle
    /\ HistoryIdle
    /\ FormatIdle
    /\ LoadIdle
    /\ PackagesIdle
    /\ SortIdle
    /\ DistroIdle
    /\ FindRootIdle
    /\ ImageIdle
    /\ TarballIdle
    /\ ResourcesIdle

AlignNext ==
    \/ AlignPopFrom
    \/ AlignRaiseTypeError
    \/ AlignReturn

SpecAlign == AlignInit /\ [][AlignNext]_vars

ResourcesInit ==
    /\ ResourcesStart
    /\ SquashIdle
    /\ ExtractIdle
    /\ HistoryIdle
    /\ FormatIdle
    /\ LoadIdle
    /\ PackagesIdle
    /\ SortIdle
    /\ DistroIdle
    /\ FindRootIdle
    /\ ImageIdle
    /\ TarballIdle
    /\ AlignIdle

ResourcesNext ==
    \/ GetResourcesNotExtracted
    \/ GetResourcesCall
    \/ GetResourcesWalk
    \/ GetResourcesEnd

SpecResources == ResourcesInit /\ [][ResourcesNext]_vars

--------------------------------------------------------------------------
(* Properties of rebuild_rootfs *)

\* What a layer provides: the non-marker paths of its extracted tree.
Provides(k) == { p \in ExtractedTree(img_layers[k]) : ~is_whiteout_marker(p) }

LayerNums == 1..Len(img_layers)

\* The name a marker .wh.<name> stands for: its basename less the leading prefix.
MarkedName(marker) == Tail(Basename(marker))

IsOpaqueName(name) == name = WHITEOUT_OPAQUE_PREFIX \/ name = OciOpaqueName

ExplicitMarkers(k) ==
    { m \in img_layers[k] : is_whiteout_marker(m) /\ ~IsOpaqueName(Basename(m)) }

\* C1: in every step of rebuild_rootfs the target only loses paths while the
\* whiteouts of the current layer are applied, which is before that layer is
\* copied and while the target holds content of the layers below only;
\* applying the whiteouts leaves the layer's own content in the temp tree
\* untouched; and once the layer is copied every path the layer provides is
\* in the target, also when the layer carries a marker naming it.
C1_WhiteoutsBeforeOverlay ==
    [][ /\ (\E p \in target : p \notin target')
            => (sq_pc = "whiteouts" /\ target' \subseteq target)
        /\ (sq_pc = "whiteouts")
            => /\ target \subseteq UNION { Provides(j) : j \in 1..(layer_num - 1) }
               /\ { p \in tmp_tree' : ~is_whiteout_marker(p) } = Provides(layer_num)
               /\ \A p \in tmp_tree' : ~is_whiteout_marker(p)
        /\ (sq_pc = "copy")
            => /\ sq_pc' = "cleanup"
               /\ target \subseteq target'
               /\ Provides(layer_num) \subseteq target'
      ]_vars

\* C1 witness: a layer that provides a/x and carries the marker a/.wh.x has
\* been copied, and a/x is in the target.
C1_Witness ==
    /\ sq_pc = "cleanup"
    /\ layer_num = 2
    /\ <<NameA, NameX>> \in img_layers[1]
    /\ {<<NameA, NameX>>, <<NameA, <<WH, "x">> >>} \subseteq img_layers[2]
    /\ <<NameA, NameX>> \in target

\* C2: after the squash, for every explicit marker <d>/.wh.<name> of a layer k:
\* <d>/<name> is in the target only if a layer >= k provides it, and the
\* marker file is not in the target.
C2_ExplicitWhiteout ==
    sq_pc = "done" =>
        \A k \in LayerNums : \A m \in ExplicitMarkers(k) :
            LET d == Dirname(m)
                p == Append(d, MarkedName(m))
            IN  /\ p \in target => \E j \in LayerNums : j >= k /\ p \in Provides(j)
                /\ m \notin target

\* C3: a file named .wh..wh..opq in <d> is found as a whiteout of <d>, and
\* after the squash <d> exists and holds nothing that only layers below placed
\* in it.
C3_OpaqueWhiteout ==
    /\ sq_pc = "whiteouts" =>
          \A i \in 1..Len(whiteouts) :
              Basename(whiteouts[i][1]) = OciOpaqueName
                  => whiteouts[i][2] = Dirname(whiteouts[i][1])
    /\ sq_pc = "done" =>
          \A k \in LayerNums : \A m \in img_layers[k] :
              Basename(m) = OciOpaqueName =>
                  /\ Dirname(m) \in target
                  /\ \A q \in target :
                        (Len(q) > 1 /\ Dirname(q) = Dirname(m))
                            => \E j \in LayerNums : j >= k /\ q \in Provides(j)

--------------------------------------------------------------------------
(* Properties of extract_tar *)

\* C4: nothing is ever created or written outside target_dir, whatever the
\* archive and whatever skip_symlinks.
C4_NothingOutsideTarget == ex_outside = {}

\* The members that extract_tar takes for links to skip: links that are
\* not skipped before for a '..' segment in their name.
SkippedLinks ==
    { i \in 1..Len(tar_entries) :
        /\ IsLink(tar_entries[i])
        /\ ~IsSpecial(tar_entries[i])
        /\ ~is_relative_path(tar_entries[i].name) }

\* C20: with skip_symlinks=True every hardlink or symlink member adds exactly
\* one info event to the returned events: the info events are those of the
\* skipped special files and one for each skipped link.
C20_SkippedLinkGivesInfoEvent ==
    (ex_pc = "done" /\ skip_symlinks) =>
        Cardinality({ i \in 1..Len(events) : events[i].type = INFO }) =
            Cardinality({ i \in 1..Len(tar_entries) : IsSpecial(tar_entries[i]) })
                + Cardinality(SkippedLinks)

\* The events that the member at ex_idx adds: each names that member (an
\* absolute name with its leading slashes stripped, once it is rewritten).
AddedEvents == SubSeq(events', Len(events) + 1, Len(events'))

\* The number of error events among the added events.
AddedErrors == Cardinality({ i \in 1..Len(AddedEvents) : AddedEvents[i].type = ERROR })

\* C21: extract_tar visits the members one by one in archive order and never
\* stops before the last one; every step keeps the events so far and adds
\* only events of the member visited, an error event exactly when the
\* extraction of that member raises; and the call returns, after the last
\* member.
C21_EveryEntryVisitedInOrder ==
    /\ [][ /\ ex_pc = "loop" /\ ex_pc' = "done" => ex_idx = Len(tar_entries) + 1
           /\ ex_pc = "loop" /\ ex_pc' = "loop" =>
                /\ ex_idx' = ex_idx + 1
                /\ Len(events') >= Len(events)
                /\ SubSeq(events', 1, Len(events)) = events
                /\ \A i \in 1..Len(AddedEvents) :
                      AddedEvents[i].source \in
                          {tar_entries[ex_idx].name, LStripSlash(tar_entries[ex_idx].name)}
                /\ AddedErrors <= 1
                /\ AddedErrors = 1 <=>
                      /\ ~IsSpecial(tar_entries[ex_idx])
                      /\ ~is_relative_path(tar_entries[ex_idx].name)
                      /\ ~(skip_symlinks /\ IsLink(tar_entries[ex_idx]))
                      /\ ~TarballExtract(ex_fs, ex_outside,
                             [tar_entries[ex_idx] EXCEPT
                                 !.name = LStripSlash(tar_entries[ex_idx].name)]).ok ]_vars
    /\ (ex_pc = "loop") ~> (ex_pc = "done")

\* extract_tar has returned after a member with a '..' segment and a member
\* whose extraction raised, both followed by another member.
C21_Witness ==
    /\ ex_pc = "done"
    /\ Len(tar_entries) = MaxEntries
    /\ is_relative_path(tar_entries[1].name)
    /\ Len(events) = 2
    /\ events[1].type = WARNING
    /\ events[2].type = ERROR

--------------------------------------------------------------------------
(* Properties of the loaders *)

\* The digest of the file at the archive_location of layer i of the image.
ArchiveOnDisk(i) ==
    IF ld_format = "docker" THEN sha256_digest(ld_disk.layer_files[i])
    ELSE sha256_digest(ld_disk.blobs[as_bare_id(ld_disk.layers[i])[1]])

\* C5: the Docker loader with verify=True returns an image only with
\* image_id equal to the digest of the config file and, for every layer,
\* sha256 equal to the bare diff_id and to the digest of the layer archive;
\* when the config or a paired layer does not match, the load fails and
\* there is no image.
C5_DockerVerified ==
    (ld_format = "docker" /\ ld_verify /\ ld_pc \in {"loaded", "failed"}) =>
        /\ ld_pc = "loaded" =>
              /\ ld_image.image_id = sha256_digest(ld_disk.config_on_disk)
              /\ Len(ld_image.layers) <= Len(ld_disk.diff_ids)
              /\ Len(ld_image.layers) <= Len(ld_disk.layer_files)
              /\ \A i \in 1..Len(ld_image.layers) :
                    /\ ld_image.layers[i].sha256 = as_bare_id(ld_disk.diff_ids[i])
                    /\ ld_image.layers[i].sha256 = ArchiveOnDisk(i)
        /\ ( \/ ld_disk.config_name # ld_disk.config_on_disk
             \/ \E i \in 1..Min(Len(ld_disk.diff_ids), Len(ld_disk.layer_files)) :
                   as_bare_id(ld_disk.diff_ids[i]) # <<ld_disk.layer_files[i]>> )
              => (ld_pc = "failed" /\ ld_image = NoImage)

\* C5 witness: a verified Docker image with two layers, one diff_id
\* prefixed and one bare.
C5_Witness ==
    /\ ld_format = "docker" /\ ld_verify /\ ld_pc = "loaded"
    /\ Len(ld_image.layers) = 2
    /\ ld_disk.diff_ids = << <<SHA, "h2">>, <<"h1">> >>

\* C6 (as stated): in an OCI image layer i's sha256 is the bare
\* rootfs.diff_ids[i] of the config, its archive is the blob the manifest's
\* layer digest addresses, and the two lists have the same length.
C6_OciLayerIsDiffId ==
    (ld_format = "oci" /\ ld_pc = "loaded") =>
        /\ Len(ld_disk.layers) = Len(ld_disk.diff_ids)
        /\ Len(ld_image.layers) = Len(ld_disk.layers)
        /\ \A i \in 1..Len(ld_image.layers) :
              /\ ld_image.layers[i].sha256 = as_bare_id(ld_disk.diff_ids[i])
              /\ ld_image.layers[i].archive_location
                    = BlobLocation(as_bare_id(ld_disk.layers[i]))

\* C6 (amended): in an OCI image there is one Layer per layer of the
\* manifest; layer i's sha256 is the bare digest of the manifest's layer i,
\* its archive is the blob that digest addresses, and with verify=True the
\* sha256 is the digest of that blob file.
C6_OciLayerIsBlobDigest ==
    (ld_format = "oci" /\ ld_pc = "loaded") =>
        /\ Len(ld_image.layers) = Len(ld_disk.layers)
        /\ \A i \in 1..Len(ld_image.layers) :
              /\ ld_image.layers[i].sha256 = as_bare_id(ld_disk.layers[i])
              /\ ld_image.layers[i].archive_location
                    = BlobLocation(as_bare_id(ld_disk.layers[i]))
              /\ ld_verify => ld_image.layers[i].sha256 = ArchiveOnDisk(i)

\* C6 witness: a verified OCI image with two layers whose config lists a
\* single diff_id, different from the first layer's digest.
C6_Witness ==
    /\ ld_format = "oci" /\ ld_verify /\ ld_pc = "loaded"
    /\ ld_disk.layers = << <<SHA, "h1">>, <<"h1">> >>
    /\ ld_disk.diff_ids = << <<SHA, "h2">> >>
    /\ Len(ld_image.layers) = 2

\* C7: every Layer of a loaded image, from either loader and in either
\* verify mode, has layer_id = sha256 = the digest of the file at its
\* archive_location.
C7_LayerIdIsArchiveDigest ==
    ld_pc = "loaded" =>
        \A i \in 1..Len(ld_image.layers) :
            /\ ld_image.layers[i].layer_id = ld_image.layers[i].sha256
            /\ ld_image.layers[i].sha256 = ArchiveOnDisk(i)

\* The non-empty entries of a history, in order.
NonEmpty(history) == SelectSeq(history, IsNonEmptyHistory)

Same(a, b) == a = b \/ (~Truthy(a) /\ ~Truthy(b))

HistoryUnset(layer) == \A f \in HistoryFields : layer[f] = None

HistoryTaken(layer, h) == \A f \in HistoryFields : Same(layer[f], h[f])

\* C9 (as stated): in a loaded image the number of non-empty history entries
\* is 0 or len(layers); when it is 0 the layers' history fields are empty; and
\* the last layer carries the last non-empty history entry.
C9_HistoryCountMatches ==
    ld_pc = "loaded" =>
        LET H == NonEmpty(ld_image.history)
            n == Len(ld_image.layers)
        IN  /\ Len(H) \in {0, n}
            /\ Len(H) = 0 => \A i \in 1..n : HistoryUnset(ld_image.layers[i])
            /\ (Len(H) > 0 /\ n > 0) => HistoryTaken(ld_image.layers[n], H[Len(H)])

\* C9 (amended): a loaded image keeps the history of its config; when the
\* number of non-empty entries equals len(layers), layer i carries the i-th
\* non-empty entry (so the last layer carries the last one); otherwise, 0
\* included, every layer's history fields are unset.
C9_HistoryAlignedOrUnset ==
    ld_pc = "loaded" =>
        LET H == NonEmpty(ld_image.history)
            n == Len(ld_image.layers)
        IN  /\ ld_image.history = ld_disk.history
            /\ Len(H) = n => \A i \in 1..n : HistoryTaken(ld_image.layers[i], H[i])
            /\ Len(H) # n => \A i \in 1..n : HistoryUnset(ld_image.layers[i])

\* C9 witness: an image loaded with two layers and a single non-empty
\* history entry.
C9_Witness ==
    /\ ld_pc = "loaded"
    /\ Len(ld_image.layers) = 2
    /\ Len(NonEmpty(ld_image.history)) = 1
    /\ Len(ld_image.history) = 2

--------------------------------------------------------------------------
(* Properties of assign_history_to_layers *)

\* C8: in a call of assign_history_to_layers, with H the history entries
\* whose empty_layer is false or absent: the call returns; the history is not
\* modified; if len(H) = len(layers) every layer i gets author, created,
\* created_by and comment from H[i] (a value that is missing or empty in H[i]
\* leaves the layer's field as it was, unset); otherwise no layer is modified.
C8_AssignHistory ==
    [][ h_pc = "call" =>
          LET H == NonEmpty(h_history)
              n == Len(h_layers)
          IN  /\ h_pc' = "returned"
              /\ h_history' = h_history
              /\ Len(h_layers') = n
              /\ Len(H) = n =>
                    \A i \in 1..n :
                        /\ HistoryTaken(h_layers'[i], H[i])
                        /\ \A f \in DOMAIN h_layers[i] :
                              h_layers'[i][f] =
                                  IF f \in HistoryFields /\ Truthy(H[i][f])
                                  THEN H[i][f] ELSE h_layers[i][f]
              /\ Len(H) # n => h_layers' = h_layers
      ]_vars

\* C8 witness: a call with one layer and a history of an empty-layer entry
\* followed by a non-empty one has returned, and the layer carries the
\* author and comment of the second entry.
C8_Witness ==
    /\ h_pc = "returned"
    /\ Len(h_history) = 2
    /\ Len(h_layers) = 1
    /\ h_history[1].empty_layer = "true"
    /\ h_history[2].empty_layer = "false"
    /\ h_layers[1].author = "A"
    /\ h_layers[1].comment = "c"

--------------------------------------------------------------------------
(* Properties of find_format *)

\* C10 (as stated): find_format returns docker iff manifest.json is at the
\* top level, oci iff index.json, oci-layout and a blobs directory are, and
\* otherwise no format, and then get_images_from_dir fails.
C10_FormatIff ==
    (fm_isdir /\ fm_pc # "start") =>
        LET names == ListDir(fm_listing)
        IN  /\ fm_format = "docker" <=> "manifest.json" \in names
            /\ fm_format = "oci" <=>
                  /\ {"index.json", "oci-layout"} \subseteq names
                  /\ [name |-> "blobs", is_dir |-> TRUE] \in fm_listing
            /\ fm_format \notin {"docker", "oci"} =>
                  (fm_format = None /\ fm_pc \in {"detected", "failed"})

\* C10 (amended): find_format returns docker iff manifest.json is at the top
\* level; oci iff manifest.json is not and entries named index.json,
\* oci-layout and blobs (a directory or not) are; otherwise no format, and
\* then, and only then, get_images_from_dir fails on a directory.
C10_DockerFirst ==
    (fm_isdir /\ fm_pc # "start") =>
        LET names == ListDir(fm_listing)
        IN  /\ fm_format = "docker" <=> "manifest.json" \in names
            /\ fm_format = "oci" <=>
                  /\ "manifest.json" \notin names
                  /\ {"index.json", "oci-layout", "blobs"} \subseteq names
            /\ fm_format \notin {"docker", "oci"} =>
                  (fm_format = None /\ fm_pc \in {"detected", "failed"})
            /\ fm_pc = "failed" => fm_format = None
            /\ fm_pc = "docker_loader" => fm_format = "docker"
            /\ fm_pc = "oci_loader" => fm_format = "oci"

\* C10 witness: a directory with manifest.json, index.json, oci-layout and a
\* blobs directory has been handed to the Docker loader.
C10_Witness ==
    /\ fm_pc = "docker_loader"
    /\ {"manifest.json", "index.json", "oci-layout"} \subseteq ListDir(fm_listing)
    /\ [name |-> "blobs", is_dir |-> TRUE] \in fm_listing

--------------------------------------------------------------------------
(* Properties of Image.get_installed_packages *)

\* The layers whose getter output holds the purl.
LayersWith(purl) ==
    { k \in 1..Len(pk_outputs) : \E i \in 1..Len(pk_outputs[k]) : pk_outputs[k][i] = purl }

AllPurls == UNION { { pk_outputs[k][i] : i \in 1..Len(pk_outputs[k]) } : k \in 1..Len(pk_outputs) }

\* C11: packages_getter is called once per layer, bottom to top; when the
\* generator is exhausted every purl of some getter output has been yielded
\* exactly once, with the bottom-most layer whose output holds it and with
\* the package of its first occurrence there; nothing is yielded twice at any
\* time.
C11_FirstOccurrenceOnly ==
    /\ Len(pk_calls) <= Len(pk_outputs)
    /\ \A i \in 1..Len(pk_calls) : pk_calls[i] = i
    /\ \A i, j \in 1..Len(pk_yielded) :
          pk_yielded[i].purl = pk_yielded[j].purl => i = j
    /\ \A i \in 1..Len(pk_yielded) :
          LET y == pk_yielded[i]
          IN  /\ y.layer \in LayersWith(y.purl)
              /\ \A k \in LayersWith(y.purl) : y.layer <= k
              /\ y.package[1] = y.layer
              /\ pk_outputs[y.layer][y.package[2]] = y.purl
              /\ \A q \in 1..(y.package[2] - 1) : pk_outputs[y.layer][q] # y.purl
    /\ pk_pc = "done" =>
          /\ Len(pk_calls) = Len(pk_outputs)
          /\ { pk_yielded[i].purl : i \in 1..Len(pk_yielded) } = AllPurls

\* C11 witness: two layers; p1 is twice in the output of layer 1 and again in
\* that of layer 2; the generator is exhausted and p1 was yielded with layer 1.
C11_Witness ==
    /\ pk_pc = "done"
    /\ pk_outputs = << <<"p1", "p1">>, <<"p2", "p1">> >>
    /\ Len(pk_yielded) = 2
    /\ pk_yielded[1].layer = 1
    /\ pk_yielded[2].purl = "p2"

--------------------------------------------------------------------------
(* Properties of LayerOld.sort *)

LayerIds(layers) == { layers[i].layer_id : i \in 1..Len(layers) }

\* One complete linear parent chain: exactly one layer without a parent, the
\* parent of every other layer is in the list, and no two layers share a
\* parent.
IsCompleteChain(layers) ==
    /\ \E i \in 1..Len(layers) :
          /\ layers[i].parent_id = NoParent
          /\ \A j \in 1..Len(layers) : layers[j].parent_id = NoParent => j = i
    /\ \A i \in 1..Len(layers) :
          layers[i].parent_id # NoParent => layers[i].parent_id \in LayerIds(layers)
    /\ \A i, j \in 1..Len(layers) :
          layers[i].parent_id = layers[j].parent_id => i = j

\* A chain from the root with one middle link missing.
IsBrokenChain(layers) ==
    \E m \in 3..(MaxChain + 1) : \E k \in 2..(m - 1) :
        LayerIds(layers) = (1..m) \ {k}

\* Bottom to top: the first layer has no parent and each other layer's parent
\* is the layer before it.
IsBottomToTop(result) ==
    /\ result # <<>> => result[1].parent_id = NoParent
    /\ \A i \in 2..Len(result) : result[i].parent_id = result[i - 1].layer_id

\* C12: for the layers of one complete linear parent chain, given in any
\* order, sort never raises, it returns, and what it returns is all the
\* layers ordered bottom to top.
C12_SortsCompleteChain ==
    /\ [](IsCompleteChain(so_layers) =>
            /\ so_pc # "raised"
            /\ so_pc = "returned" =>
                  /\ Len(so_result) = Len(so_layers)
                  /\ LayerIds(so_result) = LayerIds(so_layers)
                  /\ IsBottomToTop(so_result))
    /\ (IsCompleteChain(so_layers) /\ so_pc = "loop") ~> (so_pc = "returned")

\* C12 witness: a complete chain of MaxChain layers that starts with a layer
\* from the middle has been sorted, with layers put back on the queue on the
\* way.
C12_Witness ==
    /\ so_pc = "returned"
    /\ Len(so_layers) = MaxChain
    /\ so_layers[1].layer_id = 3
    /\ so_layers[2].layer_id = 1
    /\ so_cycles > Len(so_layers)
    /\ IsBottomToTop(so_result)

--------------------------------------------------------------------------
(* Properties of Distro.from_rootfs *)

\* C14: with a base_distro, a detected distro whose os differs from
\* base_distro.os makes the call raise; a detected distro whose os agrees
\* makes it return a Distro holding every non-empty field of the detected
\* distro and base_distro's value in every other field; when nothing is
\* detected the call returns None.  (base_distro is never assigned by any
\* step.)
C14_MismatchRaisesElseMerged ==
    (di_pc \in {"returned", "raised"} /\ di_exists /\ di_base # NoDistro) =>
        /\ (di_found # NoDistro /\ di_found[1].os # di_base[1].os) =>
              di_pc = "raised"
        /\ (di_found # NoDistro /\ di_found[1].os = di_base[1].os) =>
              /\ di_pc = "returned"
              /\ di_result # NoDistro
              /\ \A f \in DistroFields :
                    di_result[1][f] = IF Truthy(di_found[1][f])
                                      THEN di_found[1][f] ELSE di_base[1][f]
        /\ di_found = NoDistro => (di_pc = "returned" /\ di_result = NoDistro)

--------------------------------------------------------------------------
(* Properties of find_root *)

\* The directories of the walk within the depth limit that have at least
\* min_paths entries named in root_paths.
Qualifying ==
    { i \in 1..Len(fr_depths) :
        /\ fr_max_depth = 0 \/ fr_depths[i] <= fr_max_depth
        /\ Matches(fr_listings[i]) >= fr_min_paths }

\* C15: find_root returns the first directory of the walk that is within
\* max_depth and has at least min_paths entries named in root_paths, and
\* None only when no directory within the limit qualifies.
C15_FirstQualifyingDirectory ==
    fr_pc = "returned" =>
        IF Qualifying = {} THEN fr_result = NoPath
        ELSE fr_result =
               TopOf(fr_depths, CHOOSE i \in Qualifying : \A j \in Qualifying : i <= j)

--------------------------------------------------------------------------
(* Properties of Image.cleanup *)

\* Nothing of the image is extracted: the state cleanup leaves.
NotExtracted ==
    /\ im_exloc = Unset
    /\ \A i \in 1..im_count : im_layer_exloc[i] = Unset

\* cleanup has just returned: the directory that was extracted_location is
\* gone, no location is set, and the layers and metadata are the ones from
\* before.
CleanupDone ==
    im_last'[1] = "cleanup" =>
        /\ im_exloc # Unset => im_exloc \notin im_disk'
        /\ NotExtracted'
        /\ im_count' = im_count /\ im_meta' = im_meta

\* C16 (as stated): after cleanup, whatever calls came before, the image
\* directory is gone, no extracted_location is set, layers and metadata are
\* unchanged, and a following get_resources or get_and_set_distro fails with
\* a 'not extracted' error.
C16_CleanupThenNotExtracted ==
    [][ /\ CleanupDone
        /\ (NotExtracted /\ im_last'[1] \in {"get_resources", "get_and_set_distro"})
              => im_last'[2] = "not extracted" ]_vars

\* C16 (amended): as above, but get_and_set_distro on an image without
\* layers fails with an IndexError instead.
C16_CleanupThenNotExtractedOrNoLayer ==
    [][ /\ CleanupDone
        /\ (NotExtracted /\ im_last'[1] = "get_resources")
              => im_last'[2] = "not extracted"
        /\ (NotExtracted /\ im_last'[1] = "get_and_set_distro")
              => im_last'[2] = IF im_count = 0 THEN "IndexError" ELSE "not extracted" ]_vars

\* After extract_layers, a squash and cleanup, get_and_set_distro has failed
\* with 'not extracted' on an image with layers.
C16_Witness ==
    /\ im_count > 0
    /\ im_exloc = Unset
    /\ LayerDir("out", 1) \in im_disk
    /\ im_last = <<"get_and_set_distro", "not extracted">>

--------------------------------------------------------------------------
(* Properties of extracted_location and of the temporary directories *)

\* C17: the extracted_location of every layer is unset or names a directory
\* that exists.
C17_ExtractedLocationExists ==
    \A i \in 1..Len(layer_exloc) : layer_exloc[i] = 0 \/ layer_exloc[i] \in tmp_live

\* C18: at most one temporary directory of rebuild_rootfs exists at any
\* time, and none exists once rebuild_rootfs has returned or raised.
C18_TempDirsDeleted ==
    /\ Cardinality(tmp_live) <= 1
    /\ sq_pc \in {"done", "raised"} => tmp_live = {}

--------------------------------------------------------------------------
(* Properties of get_images_from_tarball *)

\* C19: get_images_from_tarball extracts the archive and returns the images
\* that get_images_from_dir returns for the extracted tree; for a tarball
\* of one single-layer image, one Image with one layer.
C19_TarballGivesImagesOfDir ==
    (tb_call = "tarball" /\ tb_pc \in {"returned", "raised"}) =>
        /\ tb_extracted = {tb_archive.listing}
        /\ find_format(tb_archive.listing) # None =>
              /\ tb_pc = "returned"
              /\ tb_result = tb_archive.images

--------------------------------------------------------------------------
(* Properties of the deletions of rebuild_rootfs *)

\* The whiteable paths of the markers of the first n layers, in layer order.
RECURSIVE WhiteablePaths(_)
WhiteablePaths(n) ==
    IF n = 0 THEN <<>>
    ELSE LET found == SetToSeq(find_whiteouts(ExtractedTree(img_layers[n])))
         IN  WhiteablePaths(n - 1) \o [i \in 1..Len(found) |-> found[i][2]]

\* C22: the loop over the whiteouts of a layer always goes on to the copy of
\* the layer, whether or not the whiteable paths exist in the target, and
\* adds one deletion per marker found; rebuild_rootfs returns one deletion
\* per marker of the image, in layer order.
C22_OneDeletionPerWhiteout ==
    /\ [][ sq_pc = "whiteouts" =>
             /\ sq_pc' = "copy"
             /\ deletions' = deletions \o [i \in 1..Len(whiteouts) |-> whiteouts[i][2]] ]_vars
    /\ [](sq_pc = "done" => deletions = WhiteablePaths(Len(img_layers)))

\* rebuild_rootfs has returned two deletions for an image of two layers:
\* the whiteout of the bottom layer names a path that never existed.
C22_Witness ==
    /\ sq_pc = "done"
    /\ Len(img_layers) = 2
    /\ Len(deletions) = 2
    /\ find_whiteouts(ExtractedTree(img_layers[1])) # {}

--------------------------------------------------------------------------
(* Properties of the loaders: schema checks *)

\* The load has read an image config.
ConfigIsRead == ld_disk # <<>> /\ "rootfs_type" \in DOMAIN ld_disk

\* C23: a load never yields an Image from a config whose rootfs type is not
\* layers, and an OCI load goes no further than an index with a schema
\* version other than 2 or a manifest entry of another media type.
C23_SchemaViolationFails ==
    /\ (ConfigIsRead /\ ld_disk.rootfs_type # "layers") =>
          (ld_pc # "loaded" /\ ld_image = NoImage)
    /\ (ld_format = "oci" /\ ld_disk # <<>>
          /\ (ld_disk.schemaversion # 2 \/ ld_disk.mediatype # OCI_MANIFEST)) =>
          (ld_pc = "failed" /\ ld_image = NoImage)

\* C24: the config_digest of a loaded image is "sha256:" followed by the
\* SHA-256 of the config file on disk.
C24_ConfigDigestIsPrefixedFileDigest ==
    ld_pc = "loaded" =>
        ld_image.config_digest = <<SHA>> \o sha256_digest(ld_disk.config_on_disk)

--------------------------------------------------------------------------
(* Properties of map_image_to_dockerfile *)

\* The pairs of a layer and an instruction, counted from the top.
AlignedPairs == 1..Min(Len(al_layers), Len(al_instructions))

PairLayer(k) == al_layers[Len(al_layers) - k + 1]

PairEntry(k) == al_instructions[Len(al_instructions) - k + 1]

\* The pairs that do not match: another instruction, or the same
\* instruction with a value that its matcher (equality for RUN and ENV)
\* rejects.
BadPairs == { k \in AlignedPairs : PairLayer(k) # PairEntry(k) }

\* C25: for a Dockerfile with at most as many instructions as the image has
\* layers, the first pair from the top that does not match decides the
\* error (CannotAlignImageToDockerfileError for another instruction,
\* AlignedInstructionWithDifferentCommandError for another value); without
\* such a pair the call returns and the layers below the pairs are the base
\* image layers.
C25_FirstBadPairDecides ==
    (al_pc \in {"returned", "raised"} /\ Len(al_instructions) <= Len(al_layers)) =>
        IF BadPairs = {}
        THEN /\ al_pc = "returned"
             /\ Len(al_base_layers) = Len(al_layers) - Len(al_instructions)
        ELSE LET k == CHOOSE i \in BadPairs : \A j \in BadPairs : i <= j
             IN  /\ al_pc = "raised"
                 /\ al_error =
                      IF PairLayer(k).instruction # PairEntry(k).instruction
                      THEN "CannotAlignImageToDockerfileError"
                      ELSE "AlignedInstructionWithDifferentCommandError"

--------------------------------------------------------------------------
(* Properties of get_whiteable_path *)

\* C26: every whiteout found for a marker <d>/.wh.<n> that is not an opaque
\* marker (n not empty) is <d>/<n>: the marker's name without its leading
\* .wh. prefix, also when n holds .wh. itself.
C26_WhiteablePathDropsLeadingPrefix ==
    sq_pc = "whiteouts" =>
        \A i \in 1..Len(whiteouts) :
            LET marker == whiteouts[i][1]
            IN  (/\ is_whiteout_marker(marker)
                 /\ ~IsOpaqueName(Basename(marker))
                 /\ MarkedName(marker) # <<>>)
                    => whiteouts[i][2] = Append(Dirname(marker), MarkedName(marker))

--------------------------------------------------------------------------
(* Properties of Layer.get_resources *)

\* The paths that get_resources is to yield a Resource for.
WantedPaths == IF rs_with_dir THEN rs_tree ELSE rs_tree \cap ResourceFiles

\* C27: get_resources fails exactly when the layer is not extracted;
\* otherwise it yields one Resource for every file, and with with_dir one
\* for every directory, with is_file True for the files and False for the
\* directories.
C27_ResourcesOfFilesAndDirs ==
    /\ rs_pc = "raised" => ~rs_extracted
    /\ rs_pc = "done" =>
          /\ rs_extracted
          /\ Len(rs_resources) = Cardinality(WantedPaths)
          /\ { rs_resources[i] : i \in 1..Len(rs_resources) } =
                { build_resource(p, p \in ResourceFiles) : p \in WantedPaths }

--------------------------------------------------------------------------
(* Properties of the loaders: layers of a Docker image *)

\* C28: a Docker image that loads has as many layers as its manifest has
\* Layers entries and as its config has diff_ids, and its layer i has the
\* archive Layers[i] and the id of diff_ids[i] (the digest of the archive
\* when diff_ids[i] is empty).
C28_OneLayerPerManifestEntry ==
    (ld_pc = "loaded" /\ ld_format = "docker") =>
        /\ Len(ld_image.layers) = Len(ld_disk.layer_files)
        /\ Len(ld_image.layers) = Len(ld_disk.diff_ids)
        /\ \A i \in 1..Len(ld_image.layers) :
              /\ ld_image.layers[i].archive_location = <<"layers", i>>
              /\ ld_image.layers[i].layer_id =
                    set_sha256(<<"layers", i>>, as_bare_id(ld_disk.diff_ids[i]),
                               sha256_digest(ld_disk.layer_files[i]))

--------------------------------------------------------------------------
(* Properties of LayerOld.sort: what is returned *)

\* The number of times that a layer is in a list.
CountIn(layer, layers) == Cardinality({ i \in 1..Len(layers) : layers[i] = layer })

IsPermutation(result, layers) ==
    /\ Len(result) = Len(layers)
    /\ \A i \in 1..Len(layers) : CountIn(layers[i], result) = CountIn(layers[i], layers)

\* C29: whatever the input, a list that sort returns is a permutation of the
\* input, every element after the first has the element before it as its
\* parent, and the parent of the first element is not a layer of the input.
C29_ReturnedListStartsAtBottom ==
    so_pc = "returned" =>
        /\ IsPermutation(so_result, so_layers)
        /\ \A i \in 2..Len(so_result) :
              so_result[i].parent_id = so_result[i - 1].layer_id
        /\ so_result # <<>> => so_result[1].parent_id \notin LayerIds(so_layers)

--------------------------------------------------------------------------
(* Properties of Distro.from_rootfs: a base_distro without an os *)

\* C30: from_rootfs raises only for a base_distro whose os is set and is not
\* the os of the finder that found a distro; a base_distro whose os is None
\* is merged with the distro found, and the call returns the merged Distro.
C30_UnsetOsIsMerged ==
    /\ di_pc = "raised" =>
          /\ di_base # NoDistro
          /\ di_base[1].os # None
          /\ di_base[1].os # FirstFinder(di_os_release, di_windows_root)
    /\ (/\ di_pc \in {"returned", "raised"}
        /\ di_base # NoDistro
        /\ di_found # NoDistro
        /\ di_base[1].os = None)
          => /\ di_pc = "returned"
             /\ di_result = <<merge(di_base[1], di_found[1])>>

==========================================================================
